---- MODULE Spec2Model ----
(***************************************************************************)
(* A model of t2archinstall.py (T2ArchInstaller): the process runner       *)
(* run_command with its lock cleanup, and the partition planner and        *)
(* filesystem provisioner create_partitions.                               *)
(*                                                                         *)
(* Several specifications share the module:                                *)
(*   SpecRun    - one run_command call at a time, with the nested calls    *)
(*                that cleanup_pacman_lock makes, against an arbitrary     *)
(*                child process and an arbitrary clock;                    *)
(*   SpecSilent - the same call on a command that writes nothing and does  *)
(*                not exit, the event loop and the clock being fair;       *)
(*   SpecPart   - create_partitions against a block device, each command   *)
(*                it awaits succeeding or failing as the device decides;   *)
(*   SpecPartDevice - the same, another program clearing the device        *)
(*                between the two inspections;                             *)
(*   SpecSeq    - the workflow steps that await a list of commands;        *)
(*   SpecSteps  - these and the steps that await commands one by one;      *)
(*   SpecChroot - run_in_chroot applied to inner commands;                 *)
(*   SpecForward - run_command reading an output stream in chunks;         *)
(*   SpecInspect - _parts and _last_is_linux on what lsblk prints.         *)
(* Command texts are sequences of one-character strings, so that the       *)
(* substring tests and the quoting of the source are computed.             *)
(***************************************************************************)
EXTENDS Integers, Sequences, FiniteSets, TLC

VARIABLES
    \* ---- run_command ----
    stack,        \* the run_command activations, outermost first
    done,         \* the activation that returned last, with its result
    cleanups,     \* cleanup_pacman_lock calls since the outermost call began
    orphans,      \* processes still running whose run_command call is over
    faults,       \* exceptions raised so far by statements other than the spawn and the read
    \* ---- create_partitions ----
    cp_pc,        \* where create_partitions stands
    opts,         \* self.disk, self.partition_mode, self.use_lvm, self.filesystem_type
    table,        \* the device's partition table (a set of partitions)
    table0,       \* the table when create_partitions was called
    tail_free,    \* whether the free tail space holds the appended set
    existing,     \* create_partitions' local: the first inspection (its knames)
    resolved,     \* create_partitions' locals efi_part, swap_part, root_base, root_final
    issued,       \* the commands run_command was awaited for, in order
    results,      \* what each of them returned
    unawaited,    \* the run_command coroutines created and never awaited
    console,      \* the lines create_partitions wrote to the console
    inputs,       \* the mount tab's root_input, efi_input, swap_input
    active_tab,   \* TabbedContent.active
    \* ---- the workflow steps, run_in_chroot ----
    flow,         \* the workflow step called last: its command list and how far it got
    chroot_call,  \* the run_in_chroot call made last: the texts it built
    \* ---- run_command's forwarding of the output ----
    fwd,          \* the output stream, the decoder, buffer, and the lines written
    \* ---- the disk inspector ----
    insp          \* what lsblk reports of a device, what _parts and _last_is_linux give

runVars  == <<stack, done, cleanups, orphans, faults>>
partVars == <<cp_pc, opts, table, table0, tail_free, existing, resolved,
              issued, results, unawaited, console, inputs, active_tab>>
seqVars  == <<flow, chroot_call, fwd, insp>>
vars     == <<stack, done, cleanups, orphans, faults, cp_pc, opts, table, table0, tail_free,
              existing, resolved, issued, results, unawaited, console, inputs,
              active_tab, flow, chroot_call, fwd, insp>>

(***************************************************************************)
(* Text                                                                    *)
(***************************************************************************)
UpperCase == <<"A","B","C","D","E","F","G","H","I","J","K","L","M",
               "N","O","P","Q","R","S","T","U","V","W","X","Y","Z">>
LowerCase == <<"a","b","c","d","e","f","g","h","i","j","k","l","m",
               "n","o","p","q","r","s","t","u","v","w","x","y","z">>

\* str.lower(), one character
LowerChar(c) ==
    IF \E i \in 1..Len(UpperCase) : UpperCase[i] = c
    THEN LowerCase[CHOOSE i \in 1..Len(UpperCase) : UpperCase[i] = c]
    ELSE c

\* str.lower()
Lower(s) == [i \in 1..Len(s) |-> LowerChar(s[i])]

\* sub in s
Contains(s, sub) ==
    \E i \in 0..(Len(s) - Len(sub)) : SubSeq(s, i + 1, i + Len(sub)) = sub

\* s.startswith(pre)
StartsWith(s, pre) == Len(s) >= Len(pre) /\ SubSeq(s, 1, Len(pre)) = pre

\* s.lstrip(), for the blank
RECURSIVE LStrip(_)
LStrip(s) == IF s # <<>> /\ Head(s) = " " THEN LStrip(Tail(s)) ELSE s

Txt_pacman   == <<"p","a","c","m","a","n">>
Txt_pacstrap == <<"p","a","c","s","t","r","a","p">>
Txt_stdbuf   == <<"s","t","d","b","u","f"," ">>
Txt_stdbuf_oL_eL == <<"s","t","d","b","u","f"," ","-","o","L"," ","-","e","L"," ">>
Txt_arch_chroot  == <<"a","r","c","h","-","c","h","r","o","o","t"," ","/","m","n","t"," ",
                      "b","a","s","h"," ","-","l","c"," ">>
Txt_rm_lock  == <<"r","m"," ","-","r","f"," ","/","v","a","r","/","l","i","b","/",
                  "p","a","c","m","a","n","/","d","b",".","l","c","k">>

\* shlex.quote: the characters that need no quoting
SafeChars ==
    {UpperCase[i] : i \in 1..Len(UpperCase)} \cup {LowerCase[i] : i \in 1..Len(LowerCase)}
    \cup {"0","1","2","3","4","5","6","7","8","9","@","%","+","=",":",",",".","/","-","_"}

\* EscapeQuotes, were the single quotes left as they are
EscapeQuotes_none(s) == s

\* s.replace("'", "'\"'\"'") of shlex.quote
RECURSIVE EscapeQuotes(_)
EscapeQuotes(s) ==
    IF s = <<>> THEN <<>>
    ELSE (IF Head(s) = "'" THEN <<"'","\"","'","\"","'">> ELSE <<Head(s)>>)
         \o EscapeQuotes(Tail(s))

\* shlex.quote(s)
ShlexQuote(s) ==
    IF s = <<>> THEN <<"'","'">>
    ELSE IF \A i \in 1..Len(s) : s[i] \in SafeChars THEN s
    ELSE <<"'">> \o EscapeQuotes(s) \o <<"'">>

(***************************************************************************)
(* run_command                                                             *)
(***************************************************************************)
\* run_command's default timeout, and the timeout cleanup_pacman_lock passes
DefaultTimeout == 300
CleanupTimeout == 30

\* How deep run_command -> cleanup_pacman_lock -> run_command may nest in the model,
\* one level less for each exception counted by faults
MaxDepth == 3

\* How many exceptions the statements other than the spawn and the read may raise
MaxFaults == 1

\* The command texts the outermost call is given
Commands ==
    { <<"l","s"," ","/","m","n","t">>,
      <<"P","a","c","m","a","n"," ","-","S","y">>,
      <<"p","a","c","s","t","r","a","p"," ","/","m","n","t">>,
      <<"s","t","d","b","u","f"," ","-","o","0"," ","l","s">> }

\* wrap_for_streaming(cmd)
wrap_for_streaming(cmd) ==
    IF StartsWith(LStrip(cmd), Txt_stdbuf) THEN cmd ELSE Txt_stdbuf_oL_eL \o cmd

\* needs_pacman_cleanup, were it true of every command
needs_pacman_cleanup_any(cmd) == Len(cmd) >= 0

\* needs_pacman_cleanup(cmd)
needs_pacman_cleanup(cmd) ==
    Contains(Lower(cmd), Txt_pacman) \/ Contains(Lower(cmd), Txt_pacstrap)

\* run_in_chroot's wrapped_inner for inner_cmd (line 378)
wrapped_inner(inner_cmd) == Txt_stdbuf_oL_eL \o inner_cmd

\* run_in_chroot's chroot_cmd for inner_cmd (line 379)
chroot_cmd(inner_cmd) == Txt_arch_chroot \o ShlexQuote(wrapped_inner(inner_cmd))

\* No process: process = None
NoProc == [state |-> "none", out |-> "none", pending |-> FALSE, rc |-> 0,
           reaped |-> FALSE]

\* The process create_subprocess_shell starts for wrap_for_streaming(command), leader
\* of its own group, its output piped
NewProc == [state |-> "running", out |-> "open", pending |-> FALSE, rc |-> 0,
            reaped |-> FALSE]

\* A run_command activation at its entry
NewFrame(command, timeout) ==
    [command |-> command, timeout |-> timeout, pc |-> "start", proc |-> NoProc,
     expired |-> FALSE, overran |-> FALSE, eof |-> FALSE, err |-> "none",
     in_handler |-> FALSE, result |-> "none"]

NoDone == [command |-> <<>>, timeout |-> 0, pc |-> "none", proc |-> NoProc,
           expired |-> FALSE, overran |-> FALSE, eof |-> FALSE, err |-> "none",
           in_handler |-> FALSE, result |-> "none"]

Top == stack[Len(stack)]
Below == SubSeq(stack, 1, Len(stack) - 1)

\* terminate_process(proc): SIGKILL to the group; a process already gone stays as it is
terminate_process(proc) ==
    IF proc.state = "running"
    THEN [proc EXCEPT !.state = "killed", !.out = "closed", !.pending = FALSE]
    ELSE proc

\* process.wait() has returned: the process is reaped
Reaped(proc) == [proc EXCEPT !.reaped = TRUE]

\* The processes the call leaves running when it is over
LeftRunning(f) == IF f.proc.state = "running" THEN 1 ELSE 0

\* return: the activation is popped, its result kept for the caller
Return(f, res) ==
    /\ stack' = Below
    /\ done' = [f EXCEPT !.result = res, !.pc = "returned"]
    /\ cleanups' = cleanups
    /\ orphans' = orphans + LeftRunning(f)

\* An exception leaves the activation: it is raised in the caller at the await of
\* cleanup_pacman_lock, inside the try (lines 315, 326, 338, 368), where the handler of
\* line 371 catches it, or inside that handler (line 374), which it leaves too
Raise(f) ==
    /\ stack' = IF Len(stack) = 1 THEN <<>>
                ELSE LET caller == stack[Len(stack) - 1]
                     IN  SubSeq(stack, 1, Len(stack) - 2)
                         \o << [caller EXCEPT !.pc = IF caller.in_handler THEN "raise"
                                                     ELSE "handler",
                                              !.in_handler = TRUE] >>
    /\ done' = [f EXCEPT !.result = "raised", !.pc = "raised"]
    /\ cleanups' = cleanups
    /\ orphans' = orphans + LeftRunning(f)

\* cleanup_pacman_lock(): run_in_chroot("rm -rf /var/lib/pacman/db.lck", timeout=30),
\* the caller going on at cont when it returns
CallCleanup(f, cont) ==
    /\ Len(stack) < MaxDepth - faults
    /\ stack' = Below \o << [f EXCEPT !.pc = cont],
                            NewFrame(chroot_cmd(Txt_rm_lock), CleanupTimeout) >>
    /\ cleanups' = cleanups + 1
    /\ done' = done
    /\ orphans' = orphans

\* The failure paths: the conditional cleanup, then cont
FailThen(f, cont) ==
    IF needs_pacman_cleanup(f.command)
    THEN CallCleanup(f, cont)
    ELSE IF cont = "ret_false"
         THEN Return(f, "False")
         ELSE /\ stack' = Below \o << [f EXCEPT !.pc = cont] >>
              /\ UNCHANGED <<done, cleanups, orphans>>

\* on_input_submitted and every other caller: run_command(command, timeout) is entered
Submit ==
    /\ stack = <<>>
    /\ \E c \in Commands, t \in {DefaultTimeout} :
          stack' = << NewFrame(c, t) >>
    /\ cleanups' = 0
    /\ done' = NoDone
    /\ orphans' = orphans
    /\ UNCHANGED <<faults, partVars, seqVars>>

\* One more exception is raised by a statement other than the spawn and the read
Fault ==
    /\ faults < MaxFaults
    /\ Len(stack) < MaxDepth - faults
    /\ faults' = faults + 1

\* The handler of line 371 is entered
ToHandler(f) ==
    /\ stack' = Below \o << [f EXCEPT !.pc = "handler", !.in_handler = TRUE] >>
    /\ UNCHANGED <<done, cleanups, orphans>>

\* lines 268-269, which no try encloses, raise
EntryRaises ==
    /\ stack # <<>> /\ Top.pc = "start"
    /\ Raise([Top EXCEPT !.err = "exception"])
    /\ Fault
    /\ UNCHANGED <<partVars, seqVars>>

\* create_subprocess_shell raises: the handler of line 371, process still None
SpawnFails ==
    /\ stack # <<>> /\ Top.pc = "start"
    /\ ToHandler([Top EXCEPT !.err = "exception"])
    /\ UNCHANGED <<faults, partVars, seqVars>>

\* the process starts and process.stdout is None (line 311)
SpawnNoPipe ==
    /\ stack # <<>> /\ Top.pc = "start"
    /\ LET p == [NewProc EXCEPT !.out = "none"]
       IN  FailThen([Top EXCEPT !.err = "capture", !.proc = terminate_process(p)],
                    "ret_false")
    /\ UNCHANGED <<faults, partVars, seqVars>>

\* the process starts with its output piped; the polling loop is entered
SpawnOk ==
    /\ stack # <<>> /\ Top.pc = "start"
    /\ stack' = Below \o << [Top EXCEPT !.pc = "poll", !.proc = NewProc] >>
    /\ UNCHANGED <<done, cleanups, orphans>>
    /\ UNCHANGED <<faults, partVars, seqVars>>

\* line 322: the elapsed time exceeds the timeout
PollTimedOut ==
    /\ stack # <<>> /\ Top.pc = "poll"
    /\ Top.expired
    /\ FailThen([Top EXCEPT !.err = "timeout", !.proc = terminate_process(Top.proc)],
                "kill_wait")
    /\ UNCHANGED <<faults, partVars, seqVars>>

\* the loop's read is reached: the timeout (never None at a call site) has not expired
InLoop == stack # <<>> /\ Top.pc = "poll" /\ ~Top.expired

\* line 331 returns data, which is decoded and forwarded line by line
ReadData ==
    /\ InLoop /\ Top.proc.pending
    /\ stack' = Below \o << [Top EXCEPT !.proc.pending = FALSE] >>
    /\ UNCHANGED <<done, cleanups, orphans>>
    /\ UNCHANGED <<faults, partVars, seqVars>>

\* line 331 returns data and a statement of lines 342-350 raises: the handler of line 371
ForwardRaises ==
    /\ InLoop /\ Top.proc.pending
    /\ ToHandler([Top EXCEPT !.err = "exception", !.proc.pending = FALSE])
    /\ Fault
    /\ UNCHANGED <<partVars, seqVars>>

\* line 331 returns b"": end of stream, the loop is left for line 363
ReadEOF ==
    /\ InLoop /\ ~Top.proc.pending /\ Top.proc.out = "closed"
    /\ stack' = Below \o << [Top EXCEPT !.pc = "wait", !.eof = TRUE] >>
    /\ UNCHANGED <<done, cleanups, orphans>>
    /\ UNCHANGED <<faults, partVars, seqVars>>

\* line 332: nothing to read within the 0.1 s slice, which may end past the timeout
ReadSlice ==
    /\ InLoop /\ ~Top.proc.pending /\ Top.proc.out = "open"
    /\ \E late \in BOOLEAN :
          stack' = Below \o << [Top EXCEPT !.expired = late,
                                           !.overran = late /\ Top.proc.state = "running"] >>
    /\ UNCHANGED <<done, cleanups, orphans>>
    /\ UNCHANGED <<faults, partVars, seqVars>>

\* line 334: the read raises
ReadRaises ==
    /\ InLoop
    /\ FailThen([Top EXCEPT !.err = "read", !.proc = terminate_process(Top.proc)],
                "kill_wait")
    /\ UNCHANGED <<faults, partVars, seqVars>>

\* a statement of lines 354-363 (the flush, process.wait()) raises: the handler of
\* line 371
FlushRaises ==
    /\ stack # <<>> /\ Top.pc = "wait"
    /\ ToHandler([Top EXCEPT !.err = "exception"])
    /\ Fault
    /\ UNCHANGED <<partVars, seqVars>>

\* ExitOk, were every exit code taken for success
ExitOk_any(rc) == rc >= 0

\* process.returncode != 0 (line 365), negated
ExitOk(rc) == rc = 0

\* line 363 returns; lines 365-370
WaitReturns ==
    /\ stack # <<>> /\ Top.pc = "wait"
    /\ Top.proc.state # "running"
    /\ LET f == [Top EXCEPT !.proc = Reaped(Top.proc)]
       IN  IF ~ExitOk(f.proc.rc)
           THEN FailThen([f EXCEPT !.err = "exit"], "ret_false")
           ELSE Return(f, "True")
    /\ UNCHANGED <<faults, partVars, seqVars>>

\* lines 372-375: the handler writes the error, runs the conditional cleanup and
\* returns False
HandlerCleanup ==
    /\ stack # <<>> /\ Top.pc = "handler"
    /\ FailThen(Top, "ret_false")
    /\ UNCHANGED <<faults, partVars, seqVars>>

\* a statement of the handler (line 372) raises: the exception leaves run_command
HandlerRaises ==
    /\ stack # <<>> /\ Top.pc = "handler"
    /\ Raise(Top)
    /\ Fault
    /\ UNCHANGED <<partVars, seqVars>>

\* the exception of a cleanup awaited inside the handler (line 374) leaves run_command
Propagate ==
    /\ stack # <<>> /\ Top.pc = "raise"
    /\ Raise(Top)
    /\ UNCHANGED <<faults, partVars, seqVars>>

\* lines 327 and 339: process.wait() after the kill, then return False
KillWaitReturns ==
    /\ stack # <<>> /\ Top.pc = "kill_wait"
    /\ Top.proc.state # "running"
    /\ Return([Top EXCEPT !.proc = Reaped(Top.proc)], "False")
    /\ UNCHANGED <<faults, partVars, seqVars>>

\* return False after the cleanup of lines 315, 368 and 374
RetFalse ==
    /\ stack # <<>> /\ Top.pc = "ret_false"
    /\ Return(Top, "False")
    /\ UNCHANGED <<faults, partVars, seqVars>>

\* ---- the child process and the clock ----
Running == stack # <<>> /\ Top.proc.state = "running"

ProcWrites ==
    /\ Running /\ Top.proc.out = "open" /\ ~Top.proc.pending
    /\ stack' = Below \o << [Top EXCEPT !.proc.pending = TRUE] >>
    /\ UNCHANGED <<done, cleanups, orphans>>
    /\ UNCHANGED <<faults, partVars, seqVars>>

ProcClosesOutput ==
    /\ Running /\ Top.proc.out = "open"
    /\ stack' = Below \o << [Top EXCEPT !.proc.out = "closed"] >>
    /\ UNCHANGED <<done, cleanups, orphans>>
    /\ UNCHANGED <<faults, partVars, seqVars>>

ProcExits ==
    /\ Running
    /\ \E code \in {0, 1} :
          stack' = Below \o << [Top EXCEPT !.proc.state = "exited", !.proc.rc = code,
                                           !.proc.out = "closed"] >>
    /\ UNCHANGED <<done, cleanups, orphans>>
    /\ UNCHANGED <<faults, partVars, seqVars>>

\* a process left running exits
OrphanExits ==
    /\ orphans > 0
    /\ orphans' = orphans - 1
    /\ UNCHANGED <<stack, done, cleanups>>
    /\ UNCHANGED <<faults, partVars, seqVars>>

\* loop.time() - start_time comes to exceed the timeout
TimePasses ==
    /\ stack # <<>> /\ Top.pc \in {"poll", "wait"} /\ ~Top.expired
    /\ stack' = Below \o << [Top EXCEPT !.expired = TRUE,
                                        !.overran = (Top.proc.state = "running")] >>
    /\ UNCHANGED <<done, cleanups, orphans>>
    /\ UNCHANGED <<faults, partVars, seqVars>>

\* ---- a command that stays silent ----
\* The process of a cleanup command, which does what it likes while the command of the
\* outermost call writes nothing, keeps its output open and does not exit
CleanupProcWrites       == Len(stack) > 1 /\ ProcWrites
CleanupProcClosesOutput == Len(stack) > 1 /\ ProcClosesOutput
CleanupProcExits        == Len(stack) > 1 /\ ProcExits

\* The event loop runs a coroutine that can go on, the clock advances, a process that
\* got SIGKILL is reaped
RunnerProgress ==
    /\ WF_vars(SpawnOk) /\ WF_vars(TimePasses) /\ WF_vars(PollTimedOut)
    /\ WF_vars(ReadData) /\ WF_vars(ReadEOF) /\ WF_vars(WaitReturns)
    /\ WF_vars(KillWaitReturns) /\ WF_vars(RetFalse)

(***************************************************************************)
(* run_command's forwarding of the output (lines 318-361)                  *)
(***************************************************************************)
\* How many bytes the process writes, at most
MaxStream == 4

LF == "\n"
CR == "\r"
\* U+FFFD, which errors="replace" puts for a byte that cannot be decoded
Replacement == "U+FFFD"
\* The bytes of the output: a letter, a blank, the line feed, the carriage return, and
\* the two bytes C3 A9 of the character U+00E9
LeadByte == "C3"
ContByte == "A9"
Bytes    == {"a", " ", LF, CR, LeadByte, ContByte}
Streams  == UNION { [1..n -> Bytes] : n \in 0..MaxStream }

\* The incremental UTF-8 decoder: decode(data, final) with pend, the bytes of an
\* unfinished character kept from the call before; it gives the characters decoded and
\* the bytes kept
RECURSIVE Decode(_, _, _)
Decode(pend, data, final) ==
    IF data = <<>>
    THEN IF final /\ pend # <<>> THEN [out |-> <<Replacement>>, pend |-> <<>>]
         ELSE [out |-> <<>>, pend |-> pend]
    ELSE LET b       == Head(data)
             put(ch, r) == [out |-> <<ch>> \o r.out, pend |-> r.pend]
         IN  IF pend # <<>>
             THEN IF b = ContByte THEN put("U+00E9", Decode(<<>>, Tail(data), final))
                  ELSE put(Replacement, Decode(<<>>, data, final))
             ELSE IF b = LeadByte THEN Decode(<<LeadByte>>, Tail(data), final)
             ELSE IF b = ContByte THEN put(Replacement, Decode(<<>>, Tail(data), final))
             ELSE put(b, Decode(<<>>, Tail(data), final))

\* .replace("\r", "\n")
ReplaceCR(s) == [i \in 1..Len(s) |-> IF s[i] = CR THEN LF ELSE s[i]]

\* str.rstrip(), for the blank
RECURSIVE RStrip(_)
RStrip(s) == IF s # <<>> /\ s[Len(s)] = " " THEN RStrip(SubSeq(s, 1, Len(s) - 1)) ELSE s

\* Where the first line feed of s stands (0 if there is none)
FirstLF(s) ==
    IF \E i \in 1..Len(s) : s[i] = LF
    THEN CHOOSE i \in 1..Len(s) : s[i] = LF /\ \A j \in 1..(i - 1) : s[j] # LF
    ELSE 0

\* What console.write is given for a line (lines 346-350)
Rendered(line) == IF RStrip(line) # <<>> THEN <<" ", " ">> \o RStrip(line) ELSE <<>>

\* lines 344-350: while "\n" in buffer
RECURSIVE Drain(_, _)
Drain(buffer, written) ==
    IF FirstLF(buffer) = 0 THEN [buffer |-> buffer, written |-> written]
    ELSE Drain(SubSeq(buffer, FirstLF(buffer) + 1, Len(buffer)),
               Append(written, Rendered(SubSeq(buffer, 1, FirstLF(buffer) - 1))))

\* buffer.split("\n")
RECURSIVE Split(_)
Split(s) ==
    IF FirstLF(s) = 0 THEN <<s>>
    ELSE <<SubSeq(s, 1, FirstLF(s) - 1)>> \o Split(SubSeq(s, FirstLF(s) + 1, Len(s)))

\* Flush, were what is left in the buffer at the end of the stream dropped
Flush_nothing(buffer, written) == written

\* lines 355-361: the lines of what is left in the buffer are written, an empty last
\* one not
RECURSIVE FlushLines(_, _)
FlushLines(lines, written) ==
    IF lines = <<>> THEN written
    ELSE FlushLines(Tail(lines),
                    IF RStrip(Head(lines)) # <<>> \/ Head(lines) # <<>>
                    THEN Append(written, Rendered(Head(lines)))
                    ELSE written)

Flush(buffer, written) ==
    IF buffer # <<>> THEN FlushLines(Split(buffer), written) ELSE written

\* run_command at line 318, the process about to write stream
NewForward(stream) ==
    [pc |-> "read", stream |-> stream, rest |-> stream, pend |-> <<>>, buffer |-> <<>>,
     written |-> <<>>, reads |-> 0]
NoForward == [pc |-> "idle", stream |-> <<>>, rest |-> <<>>, pend |-> <<>>,
              buffer |-> <<>>, written |-> <<>>, reads |-> 0]

\* lines 331 and 342-350: the read returns the next n bytes, which are decoded and
\* forwarded line by line
ForwardData ==
    /\ fwd.pc = "read" /\ fwd.rest # <<>>
    /\ \E n \in 1..Len(fwd.rest) :
          LET data == SubSeq(fwd.rest, 1, n)
              dec  == Decode(fwd.pend, data, FALSE)
              d    == Drain(fwd.buffer \o ReplaceCR(dec.out), fwd.written)
          IN  fwd' = [fwd EXCEPT !.rest = SubSeq(fwd.rest, n + 1, Len(fwd.rest)),
                                 !.pend = dec.pend,
                                 !.buffer = d.buffer,
                                 !.written = d.written,
                                 !.reads = @ + 1]
    /\ UNCHANGED <<runVars, partVars, flow, chroot_call, insp>>

\* lines 351-361: the read returns b"", the loop is left, the decoder and the buffer
\* are flushed
ForwardEOF ==
    /\ fwd.pc = "read" /\ fwd.rest = <<>>
    /\ LET dec    == Decode(fwd.pend, <<>>, TRUE)
           buffer == fwd.buffer \o ReplaceCR(dec.out)
       IN  fwd' = [fwd EXCEPT !.pc = "returned",
                              !.pend = dec.pend,
                              !.buffer = buffer,
                              !.written = Flush(buffer, fwd.written)]
    /\ UNCHANGED <<runVars, partVars, flow, chroot_call, insp>>

(***************************************************************************)
(* The block device                                                        *)
(***************************************************************************)
\* How many partitions the device holds when create_partitions is called, at most
MaxExisting == 3

Txt_dev      == <<"/","d","e","v","/">>
Disk_sda     == <<"/","d","e","v","/","s","d","a">>
Disk_nvme    == <<"/","d","e","v","/","n","v","m","e","0","n","1">>
DigitChars   == <<"0","1","2","3","4","5","6","7","8","9">>
IsDigit(c)   == \E i \in 1..10 : DigitChars[i] = c

\* The decimal numeral of n
RECURSIVE Numeral(_)
Numeral(n) == IF n < 10 THEN <<DigitChars[n + 1]>>
              ELSE Numeral(n \div 10) \o <<DigitChars[(n % 10) + 1]>>

\* The partition type GUIDs as lsblk prints them, and as sfdisk's script names them
Guid_uefi  == <<"c","1","2","a","7","3","2","8","-","f","8","1","f","-","1","1","d","2","-",
                "b","a","4","b","-","0","0","a","0","c","9","3","e","c","9","3","b">>
Guid_swap  == <<"0","6","5","7","f","d","6","d","-","a","4","a","b","-","4","3","c","4","-",
                "8","4","e","5","-","0","9","3","3","c","8","4","b","4","f","4","f">>
Guid_linux == <<"0","f","c","6","3","d","a","f","-","8","4","8","3","-","4","7","7","2","-",
                "8","e","7","9","-","3","d","6","9","d","8","4","7","7","d","e","4">>
Guid_lvm   == <<"e","6","d","6","d","3","7","9","-","f","5","0","7","-","4","4","c","2","-",
                "a","2","3","c","-","2","3","8","f","2","a","3","d","f","9","2","8">>
Guid_msdata == <<"e","b","d","0","a","0","a","2","-","b","9","e","5","-","4","4","3","3","-",
                 "8","7","c","0","-","6","8","b","6","b","7","2","6","9","9","c","7">>
Txt_8300   == <<"8","3","0","0">>
Txt_ext4   == <<"e","x","t","4">>
Txt_xfs    == <<"x","f","s">>
Txt_btrfs  == <<"b","t","r","f","s">>
Txt_f2fs   == <<"f","2","f","s">>
Txt_vfat   == <<"v","f","a","t">>
Txt_swap   == <<"s","w","a","p">>
Txt_LVM2   == <<"L","V","M","2","_","m","e","m","b","e","r">>
Txt_vg0_root == <<"/","d","e","v","/","v","g","0","/","r","o","o","t">>

\* The kernel's name of partition num of a disk: a "p" after a disk name ending in a digit
PartName(disk, num) ==
    LET base == SubSeq(disk, Len(Txt_dev) + 1, Len(disk))
    IN  base \o (IF IsDigit(base[Len(base)]) THEN <<"p">> ELSE <<>>) \o Numeral(num)

\* lsblk's PARTTYPE column for a partition type
LsblkParttype(type) ==
    CASE type = "uefi"   -> Guid_uefi
      [] type = "swap"   -> Guid_swap
      [] type = "linux"  -> Guid_linux
      [] type = "lvm"    -> Guid_lvm
      [] type = "msdata" -> Guid_msdata

\* lsblk's FSTYPE column for a file system signature, null (here <<>>) for none
LsblkFstype(fs) ==
    CASE fs = ""            -> <<>>
      [] fs = "ext4"        -> Txt_ext4
      [] fs = "xfs"         -> Txt_xfs
      [] fs = "btrfs"       -> Txt_btrfs
      [] fs = "vfat"        -> Txt_vfat
      [] fs = "swap"        -> Txt_swap
      [] fs = "LVM2_member" -> Txt_LVM2

\* The partitions a device may hold at the call, in start order, numbered upwards or
\* downwards: an EFI-typed one without a file system, a Linux-typed one without a
\* file system, a Microsoft-data-typed one holding xfs
Kinds == { [type |-> "uefi",   fs |-> ""],
           [type |-> "linux",  fs |-> ""],
           [type |-> "msdata", fs |-> "xfs"] }

KindSeqs == UNION { [1..n -> Kinds] : n \in 0..MaxExisting }

TableOf(ks, numbering) ==
    { [num |-> IF numbering = "up" THEN i ELSE 9 + (Len(ks) + 1 - i),
       start |-> i, type |-> ks[i].type, fs |-> ks[i].fs, new |-> FALSE] : i \in 1..Len(ks) }

InitialTables == { TableOf(ks, nb) : ks \in KindSeqs, nb \in {"up", "down"} }

MaxOf(S) == CHOOSE x \in S : \A y \in S : y <= x

\* sfdisk's reading of a script entry's type: a shortcut or a GUID
SfdiskType(type) ==
    CASE type = "uefi"  -> "uefi"
      [] type = "swap"  -> "swap"
      [] type = "linux" -> "linux"
      [] type = "E6D6D379-F507-44C2-A23C-238F2A3DF928" -> "lvm"

\* The script's partition entries (its lines other than the label line)
Entries(script) == SelectSeq(script, LAMBDA l : l.label = "")

\* sfdisk --wipe always, "label: gpt": a fresh table holding the script's entries
WipeAndCreate(script) ==
    LET es == Entries(script)
    IN  { [num |-> i, start |-> i, type |-> SfdiskType(es[i].type), fs |-> "",
           new |-> TRUE] : i \in 1..Len(es) }

\* sfdisk --append: the script's entries after the last partition
AppendEntries(t, script) ==
    LET es == Entries(script)
        n0 == IF t = {} THEN 0 ELSE MaxOf({p.num : p \in t})
        s0 == IF t = {} THEN 0 ELSE MaxOf({p.start : p \in t})
    IN  t \cup { [num |-> n0 + i, start |-> s0 + i, type |-> SfdiskType(es[i].type),
                  fs |-> "", new |-> TRUE] : i \in 1..Len(es) }

\* sfdisk --delete disk pnum
DeletePartition(t, pnum) == { p \in t : Numeral(p.num) # pnum }

\* A filesystem signature written to the partition of that path
Formatted(t, disk, kname, fs) ==
    { IF Txt_dev \o PartName(disk, p.num) = kname THEN [p EXCEPT !.fs = fs] ELSE p
      : p \in t }

(***************************************************************************)
(* create_partitions                                                       *)
(***************************************************************************)
\* swap_mib, and the EFI entry's size in GiB
swap_mib == 4096
efi_gib  == 1

NoSize == [n |-> 0, unit |-> ""]
LabelLine(label)       == [label |-> label, size |-> NoSize, type |-> ""]
EntryLine(n, unit, ty) == [label |-> "", size |-> [n |-> n, unit |-> unit], type |-> ty]
RestLine(ty)           == [label |-> "", size |-> NoSize, type |-> ty]

\* The commands create_partitions hands to run_command
Command(cmd, dev, script, arg, fs) ==
    [cmd |-> cmd, dev |-> dev, script |-> script, arg |-> arg, fs |-> fs]
SfdiskWipe(disk, script)   == Command("sfdisk --wipe always", disk, script, <<>>, "")
SfdiskAppend(disk, script) == Command("sfdisk --append", disk, script, <<>>, "")
SfdiskDelete(disk, pnum)   == Command("sfdisk --delete", disk, <<>>, pnum, "")
MkfsFat(part)              == Command("mkfs.fat -F32", part, <<>>, <<>>, "")
Mkswap(part)               == Command("mkswap", part, <<>>, <<>>, "")
Pvcreate(part)             == Command("pvcreate", part, <<>>, <<>>, "")
Vgcreate(part)             == Command("vgcreate vg0", part, <<>>, <<>>, "")
Lvcreate                   == Command("lvcreate -l 100%FREE vg0 -n root", <<>>, <<>>, <<>>, "")
Mkfs(fs, part)             == Command("mkfs", part, <<>>, <<>>, fs)
MkfsBtrfsForce(part)       == Command("mkfs -f", part, <<>>, <<>>, "btrfs")

\* include_swap (lines 515-518)
include_swap == opts.partition_mode # "partition_without_swap"

\* The root entry's type (lines 554-557 and 569-572)
RootType == IF opts.use_lvm THEN "E6D6D379-F507-44C2-A23C-238F2A3DF928" ELSE "linux"

\* WholeScript, were the swap entry written whatever the mode
WholeScript_always_swap ==
    <<LabelLine("gpt"), EntryLine(efi_gib, "GiB", "uefi"), EntryLine(swap_mib, "MiB", "swap"),
      RestLine(RootType)>>

\* The Initialize script (lines 550-558)
WholeScript ==
    <<LabelLine("gpt"), EntryLine(efi_gib, "GiB", "uefi")>>
    \o (IF include_swap THEN <<EntryLine(swap_mib, "MiB", "swap")>> ELSE <<>>)
    \o <<RestLine(RootType)>>

\* AppendScript, were the swap entry left out
AppendScript_without_swap ==
    <<EntryLine(efi_gib, "GiB", "uefi"), RestLine(RootType)>>

\* The Append script (lines 566-573)
AppendScript ==
    <<EntryLine(efi_gib, "GiB", "uefi")>>
    \o (IF include_swap THEN <<EntryLine(swap_mib, "MiB", "swap")>> ELSE <<>>)
    \o <<RestLine(RootType)>>

\* sorted by start
RECURSIVE SortByStart(_)
SortByStart(S) ==
    IF S = {} THEN <<>>
    ELSE LET p == CHOOSE x \in S : \A y \in S : x.start <= y.start
         IN  <<p>> \o SortByStart(S \ {p})

\* _parts(): what lsblk reports of the disk's children, sorted by start
parts_(t) ==
    LET row(c) == [name |-> PartName(opts.disk, c.num),
                   kname |-> Txt_dev \o PartName(opts.disk, c.num),
                   start |-> c.start,
                   parttype |-> Lower(LsblkParttype(c.type)),
                   fstype |-> Lower(LsblkFstype(c.fs))]
    IN  SortByStart({ row(c) : c \in t })

\* _last_is_linux, were the filesystem not looked at
last_is_linux_by_type(p) == p.parttype \in {Guid_linux, Txt_8300}

\* _last_is_linux(p)
last_is_linux(p) ==
    \/ p.parttype \in {Guid_linux, Txt_8300}
    \/ p.fstype \in {Txt_ext4, Txt_xfs, Txt_btrfs, Txt_f2fs}

\* TrailingDigits, were it every digit of the name
RECURSIVE TrailingDigits_all(_)
TrailingDigits_all(name) ==
    IF name = <<>> THEN <<>>
    ELSE (IF IsDigit(Head(name)) THEN <<Head(name)>> ELSE <<>>)
         \o TrailingDigits_all(Tail(name))

\* re.search(r'(\d+)$', name).group(1)
RECURSIVE TrailingDigits(_)
TrailingDigits(name) ==
    IF name # <<>> /\ IsDigit(name[Len(name)])
    THEN TrailingDigits(SubSeq(name, 1, Len(name) - 1)) \o <<name[Len(name)]>>
    ELSE <<>>

(***************************************************************************)
(* _parts and _last_is_linux on what lsblk prints                          *)
(***************************************************************************)
\* How many children lsblk reports of the device, at most, and how often a partition
\* is classified
MaxChildren == 3
MaxClassify == 2

\* A value of lsblk's JSON: null, or v
JsonNull    == [null |-> TRUE, v |-> <<>>]
Json(v)     == [null |-> FALSE, v |-> v]

\* int(c.get(key) or 0)
IntOr0(j) == IF j.null THEN 0 ELSE j.v

\* (c.get(key) or "").lower()
LowerOrEmpty(j) == IF j.null THEN <<>> ELSE Lower(j.v)

\* dev.get("children") or []
ChildrenOrEmpty(dev) ==
    IF ~dev.has_children \/ dev.children.null THEN <<>> ELSE dev.children.v

\* One element of parts (lines 530-537)
PartRow(c) ==
    [name |-> c.name, kname |-> Txt_dev \o c.name,
     size |-> IntOr0(c.size), start |-> IntOr0(c.start),
     parttype |-> LowerOrEmpty(c.parttype), fstype |-> LowerOrEmpty(c.fstype)]

\* InsertByStart, were the sort descending
InsertByStart_descending(sorted, p) ==
    LET n == Cardinality({ i \in 1..Len(sorted) : sorted[i].start >= p.start })
    IN  SubSeq(sorted, 1, n) \o <<p>> \o SubSeq(sorted, n + 1, Len(sorted))

\* list.sort(key=start): p is put behind the elements whose start is not greater
InsertByStart(sorted, p) ==
    LET n == Cardinality({ i \in 1..Len(sorted) : sorted[i].start <= p.start })
    IN  SubSeq(sorted, 1, n) \o <<p>> \o SubSeq(sorted, n + 1, Len(sorted))

RECURSIVE SortRows(_)
SortRows(rows) ==
    IF rows = <<>> THEN <<>>
    ELSE InsertByStart(SortRows(SubSeq(rows, 1, Len(rows) - 1)), rows[Len(rows)])

\* _parts(), given the device of lsblk's output (lines 529-539)
PartsOfDevice(dev) ==
    LET ch == ChildrenOrEmpty(dev)
    IN  SortRows([ i \in 1..Len(ch) |-> PartRow(ch[i]) ])

\* What lsblk prints in the PARTTYPE and FSTYPE columns of the partitions
Txt_GUID_LINUX == <<"0","F","C","6","3","D","A","F","-","8","4","8","3","-","4","7","7","2","-",
                    "8","E","7","9","-","3","D","6","9","D","8","4","7","7","D","E","4">>
Txt_Btrfs      == <<"B","t","r","f","s">>
Txt_ntfs       == <<"n","t","f","s">>
ChildKinds ==
    { [parttype |-> Json(Guid_uefi),      fstype |-> Json(Txt_vfat)],
      [parttype |-> Json(Guid_linux),     fstype |-> JsonNull],
      [parttype |-> Json(Txt_GUID_LINUX), fstype |-> Json(Txt_ntfs)],
      [parttype |-> Json(Txt_8300),       fstype |-> JsonNull],
      [parttype |-> Json(Guid_msdata),    fstype |-> Json(Txt_Btrfs)],
      [parttype |-> Json(Guid_msdata),    fstype |-> Json(Txt_f2fs)],
      [parttype |-> Json(Guid_msdata),    fstype |-> Json(Txt_ext4)],
      [parttype |-> JsonNull,             fstype |-> Json(Txt_xfs)],
      [parttype |-> Json(Guid_msdata),    fstype |-> Json(Txt_ntfs)],
      [parttype |-> JsonNull,             fstype |-> JsonNull] }
\* The kinds of the partitions other than the one that starts last
OtherKinds ==
    { [parttype |-> Json(Guid_uefi),   fstype |-> Json(Txt_vfat)],
      [parttype |-> Json(Guid_linux),  fstype |-> Json(Txt_ext4)] }

\* How the listed partitions are named: the disk, and the number before the first's
Numberings == { [disk |-> Disk_nvme, before |-> 4], [disk |-> Disk_sda, before |-> 9] }

\* The children lsblk lists: consecutive partitions of a disk, the starts in any
\* order (2048 sectors of 512 bytes apart), the partition that starts last of any kind
ChildLists ==
    UNION { { [ i \in 1..n |->
                  LET kind == IF order[i] = n THEN last ELSE others[i]
                  IN  [name |-> PartName(nb.disk, nb.before + i), size |-> Json(1048576),
                       start |-> Json(1048576 * order[i]),
                       parttype |-> kind.parttype, fstype |-> kind.fstype] ]
              : last \in ChildKinds, others \in [1..n -> OtherKinds],
                order \in Permutations(1..n), nb \in Numberings }
            : n \in 0..MaxChildren }

\* lsblk's device: the children key missing, null, or a list
Devices ==
    { [has_children |-> FALSE, children |-> JsonNull],
      [has_children |-> TRUE, children |-> JsonNull] }
    \cup { [has_children |-> TRUE, children |-> Json(ch)] : ch \in ChildLists }

\* pnum holds the index once it is extracted
NewInspection(dev) == [pc |-> "call", dev |-> dev, parts |-> <<>>, verdicts |-> <<>>,
                       pnum |-> <<>>]
NoInspection == [pc |-> "idle", dev |-> [has_children |-> FALSE, children |-> JsonNull],
                 parts |-> <<>>, verdicts |-> <<>>, pnum |-> <<>>]

\* existing = _parts() (line 545), parts_before = _parts() (line 580)
Inspect ==
    /\ insp.pc = "call"
    /\ insp' = [insp EXCEPT !.pc = "inspected", !.parts = PartsOfDevice(insp.dev)]
    /\ UNCHANGED <<runVars, partVars, flow, chroot_call, fwd>>

\* _last_is_linux(last) (lines 584-585), called once more on the same partition
Classify ==
    /\ insp.pc = "inspected" /\ insp.parts # <<>>
    /\ Len(insp.verdicts) < MaxClassify
    /\ insp' = [insp EXCEPT !.verdicts =
                    Append(@, last_is_linux(insp.parts[Len(insp.parts)]))]
    /\ UNCHANGED <<runVars, partVars, flow, chroot_call, fwd>>

\* m = re.search(r'(\d+)$', last["name"]); pnum = m.group(1) (lines 590-591)
ExtractIndex ==
    /\ insp.pc = "inspected" /\ insp.parts # <<>> /\ insp.pnum = <<>>
    /\ insp' = [insp EXCEPT !.pnum = <<TrailingDigits(insp.parts[Len(insp.parts)].name)>>]
    /\ UNCHANGED <<runVars, partVars, flow, chroot_call, fwd>>

\* The rows' kname column
Names(ps) == [i \in 1..Len(ps) |-> ps[i].kname]

auto_mode_off_by_one(ex) == IF Len(ex) <= 1 THEN "whole" ELSE "add"

\* auto_mode (line 546)
auto_mode(ex) == IF Len(ex) = 0 THEN "whole" ELSE "add"

\* The value of a call expression: an awaited run_command gives its bool, a call that
\* is not awaited gives the coroutine object
Awaited(b)  == [type |-> "bool", value |-> b]
Coroutine   == [type |-> "coroutine", value |-> TRUE]
\* Python's truth value: an object that is no bool, number or container is true
Truthy(v)   == IF v.type = "bool" THEN v.value ELSE TRUE

NoResolved == [efi_part |-> <<>>, swap_part |-> <<>>, root_base |-> <<>>,
               root_final |-> <<>>]
NoInputs   == [root_input |-> <<>>, efi_input |-> <<>>, swap_input |-> <<>>]

\* return after an [ERROR] line
Abort(msg) ==
    /\ console' = Append(console, msg)
    /\ cp_pc' = "returned"

\* Run, were the command run a second time
Run_twice(c, ok) ==
    /\ issued' = issued \o <<c, c>>
    /\ results' = results \o <<ok, ok>>

\* One awaited run_command(c): the command runs to its end and gives ok
Run(c, ok) ==
    /\ issued' = Append(issued, c)
    /\ results' = Append(results, ok)

\* on_button_pressed, partition_btn: self.disk is read from the disk input
PartitionBtn ==
    /\ cp_pc = "idle"
    /\ \E d \in {<<>>, Disk_sda, Disk_nvme} :
          /\ opts' = [opts EXCEPT !.disk = d]
          /\ active_tab' = IF d # <<>> THEN "partition_tab" ELSE active_tab
    /\ UNCHANGED <<cp_pc, table, table0, tail_free, existing, resolved, issued,
                   results, unawaited, console, inputs>>
    /\ UNCHANGED <<runVars, seqVars>>

\* The ids of the buttons of the filesystem_choice radio set (lines 131-133)
FilesystemChoices ==
    { <<"b","t","r","f","s","_","p","l","a","i","n">>,
      <<"e","x","t","4","_","p","l","a","i","n">>,
      <<"e","x","t","4","_","l","v","m">> }

\* use_lvm_of, were LVM kept whatever is chosen
use_lvm_of_always(choice) == TRUE

\* "lvm" in choice (line 395)
use_lvm_of(choice) == Contains(choice, <<"l","v","m">>)

\* "btrfs" if "btrfs" in choice else "ext4" (line 396)
filesystem_type_of(choice) ==
    IF Contains(choice, <<"b","t","r","f","s">>) THEN "btrfs" ELSE "ext4"

\* on_radio_set_changed
RadioSetChanged ==
    /\ cp_pc = "idle"
    /\ \/ \E choice \in FilesystemChoices :
             opts' = [opts EXCEPT !.use_lvm = use_lvm_of(choice),
                                  !.filesystem_type = filesystem_type_of(choice)]
       \/ \E id \in {"partition_without_swap", "partition_with_swap"} :
             opts' = [opts EXCEPT !.partition_mode = id]
    /\ UNCHANGED <<cp_pc, table, table0, tail_free, existing, resolved, issued,
                   results, unawaited, console, inputs, active_tab>>
    /\ UNCHANGED <<runVars, seqVars>>

\* lines 508-546: the precondition, the options, the first inspection, the mode
CP_Start ==
    /\ cp_pc = "idle"
    /\ IF opts.disk = <<>>
       THEN /\ Abort("[ERROR] No disk specified")
            /\ UNCHANGED existing
       ELSE /\ existing' = Names(parts_(table))
            /\ cp_pc' = auto_mode(parts_(table))
            /\ UNCHANGED console
    /\ UNCHANGED <<opts, table, table0, tail_free, resolved, issued, results,
                   unawaited, inputs, active_tab>>
    /\ UNCHANGED <<runVars, seqVars>>

InitializeCommand_delete == SfdiskDelete(opts.disk, <<"1">>)

\* The command of line 560
InitializeCommand == SfdiskWipe(opts.disk, WholeScript)

\* lines 548-562: the Initialize path
CP_Initialize ==
    /\ cp_pc = "whole"
    /\ \E ok \in BOOLEAN :
          /\ Run(InitializeCommand, ok)
          /\ IF ok
             THEN /\ table' = WipeAndCreate(InitializeCommand.script)
                  /\ console' = Append(console, "Creating partitions...")
                  /\ cp_pc' = "resolve"
             ELSE /\ console' = console \o <<"Creating partitions...",
                                            "[ERROR] Partitioning failed.">>
                  /\ cp_pc' = "returned"
                  /\ UNCHANGED table
    /\ UNCHANGED <<opts, table0, tail_free, existing, resolved, unawaited, inputs,
                   active_tab>>
    /\ UNCHANGED <<runVars, seqVars>>

\* Another program removes the device's partitions between the inspection of line 545
\* and the one of line 580
DeviceCleared ==
    /\ cp_pc = "add" /\ table # {}
    /\ table' = {}
    /\ UNCHANGED <<cp_pc, opts, table0, tail_free, existing, resolved, issued, results,
                   unawaited, console, inputs, active_tab>>
    /\ UNCHANGED <<runVars, seqVars>>

\* The value of ok (lines 575-577): run_command(...) is called and not awaited
AppendCall == Coroutine

\* lines 579-601: the append has failed; iss are the commands issued so far
AppendFailed(iss, res) ==
    LET parts_before == parts_(table)
        last == parts_before[Len(parts_before)]
        pnum == TrailingDigits(last.name)
        del  == SfdiskDelete(opts.disk, pnum)
        app  == SfdiskAppend(opts.disk, AppendScript)
        said == Append(console, "Adding partitions at the end of the disk...")
    IN  IF parts_before = <<>>
        THEN /\ console' = Append(said, "[ERROR] No existing partitions; use Whole drive mode.")
             /\ cp_pc' = "returned"
             /\ issued' = iss
             /\ results' = res
             /\ UNCHANGED <<table, tail_free>>
        ELSE IF ~last_is_linux(last)
        THEN /\ console' = Append(said, "[ERROR] Not enough free tail space and last partition is not Linux; refusing to delete.")
             /\ cp_pc' = "returned"
             /\ issued' = iss
             /\ results' = res
             /\ UNCHANGED <<table, tail_free>>
        ELSE \E deleted \in BOOLEAN, fits \in BOOLEAN :
               IF ~deleted
               THEN /\ issued' = Append(iss, del)
                    /\ results' = Append(res, FALSE)
                    /\ console' = Append(said, "[ERROR] Failed deleting the last partition.")
                    /\ cp_pc' = "returned"
                    /\ UNCHANGED <<table, tail_free>>
               ELSE /\ issued' = iss \o <<del, app>>
                    /\ results' = res \o <<TRUE, fits>>
                    /\ tail_free' = fits
                    /\ IF fits
                       THEN /\ table' = AppendEntries(DeletePartition(table, pnum), app.script)
                            /\ console' = said
                            /\ cp_pc' = "resolve"
                       ELSE /\ table' = DeletePartition(table, pnum)
                            /\ console' = Append(said, "[ERROR] Appending partitions failed even after deleting the last Linux partition.")
                            /\ cp_pc' = "returned"

\* lines 564-601: the Append path
CP_Append ==
    /\ cp_pc = "add"
    /\ LET ok    == AppendCall
           first == SfdiskAppend(opts.disk, AppendScript)
           iss   == IF ok.type = "bool" THEN Append(issued, first) ELSE issued
           res   == IF ok.type = "bool" THEN Append(results, ok.value) ELSE results
       IN  /\ unawaited' = IF ok.type = "coroutine" THEN Append(unawaited, first)
                           ELSE unawaited
           /\ IF ~Truthy(ok)
              THEN AppendFailed(iss, res)
              ELSE /\ issued' = iss
                   /\ results' = res
                   /\ table' = IF ok.type = "bool" THEN AppendEntries(table, first.script)
                               ELSE table
                   /\ console' = Append(console, "Adding partitions at the end of the disk...")
                   /\ cp_pc' = "resolve"
                   /\ UNCHANGED tail_free
    /\ UNCHANGED <<opts, table0, existing, resolved, inputs, active_tab>>
    /\ UNCHANGED <<runVars, seqVars>>

\* parts_after[-n:]
LastN(seq, n) == SubSeq(seq, IF Len(seq) > n THEN Len(seq) - n + 1 ELSE 1, Len(seq))

SetSize_swapped == IF include_swap THEN 2 ELSE 3

\* How many partitions new_set takes (line 604)
SetSize == IF include_swap THEN 3 ELSE 2

\* new_set (lines 603-604)
new_set(t) == LastN(parts_(t), SetSize)

\* lines 603-609: the second inspection; an index past new_set's end raises IndexError
CP_Resolve ==
    /\ cp_pc = "resolve"
    /\ LET ns == new_set(table)
       IN  IF Len(ns) = 0 \/ (include_swap /\ Len(ns) < 2)
           THEN /\ cp_pc' = "raised"
                /\ UNCHANGED <<resolved, console>>
           ELSE /\ resolved' = [efi_part   |-> ns[1].kname,
                                swap_part  |-> IF include_swap THEN ns[2].kname ELSE <<>>,
                                root_base  |-> ns[Len(ns)].kname,
                                root_final |-> <<>>]
                /\ console' = Append(console, "Creating filesystems...")
                /\ cp_pc' = "mkfs_fat"
    /\ UNCHANGED <<opts, table, table0, tail_free, existing, issued, results,
                   unawaited, inputs, active_tab>>
    /\ UNCHANGED <<runVars, seqVars>>

\* RootFinal, were it the base partition in both cases
RootFinal_base == resolved.root_base

\* root_final (lines 627 and 634)
RootFinal == IF opts.use_lvm THEN Txt_vg0_root ELSE resolved.root_base

\* RootStep, were the chain entered at its second command
RootStep_at_vgcreate == IF opts.use_lvm THEN "vgcreate" ELSE "mkfs_root"

\* Where the root is provisioned (line 623)
RootStep == IF opts.use_lvm THEN "pvcreate" ELSE "mkfs_root"

\* lines 636-643: the success message, the mount tab's inputs, the mount tab
Finish(root_final) ==
    /\ console' = Append(console, "Partitioning completed successfully!")
    /\ resolved' = [resolved EXCEPT !.root_final = root_final]
    /\ inputs' = [root_input |-> root_final, efi_input |-> resolved.efi_part,
                  swap_input |-> resolved.swap_part]
    /\ active_tab' = "mount_tab"
    /\ cp_pc' = "returned"

\* A provisioning step: run_command(c) awaited; on success fs is written to the
\* partition and next follows, on failure msg (if any) is written and the call returns
Step(at, c, fs, next, msg) ==
    /\ cp_pc = at
    /\ \E ok \in BOOLEAN :
          /\ Run(c, ok)
          /\ IF ok
             THEN /\ table' = Formatted(table, opts.disk, c.dev, fs)
                  /\ IF next = "finish"
                     THEN Finish(RootFinal)
                     ELSE /\ cp_pc' = next
                          /\ UNCHANGED <<console, resolved, inputs, active_tab>>
             ELSE /\ cp_pc' = "returned"
                  /\ console' = IF msg = "" THEN console ELSE Append(console, msg)
                  /\ UNCHANGED <<table, resolved, inputs, active_tab>>
    /\ UNCHANGED <<opts, table0, tail_free, existing, unawaited>>
    /\ UNCHANGED <<runVars, seqVars>>

\* lines 611-614
CP_MkfsFat ==
    Step("mkfs_fat", MkfsFat(resolved.efi_part), "vfat",
         IF resolved.swap_part # <<>> THEN "mkswap" ELSE RootStep, "[ERROR] mkfs.fat failed.")

\* lines 616-620
CP_Mkswap ==
    Step("mkswap", Mkswap(resolved.swap_part), "swap", RootStep, "[ERROR] mkswap failed.")

LvmChain_vg_first ==
    << Vgcreate(resolved.root_base), Pvcreate(resolved.root_base), Lvcreate,
       Mkfs(opts.filesystem_type, Txt_vg0_root) >>

\* The LVM chain's commands in the order of lines 624-628
LvmChain ==
    << Pvcreate(resolved.root_base), Vgcreate(resolved.root_base), Lvcreate,
       Mkfs(opts.filesystem_type, Txt_vg0_root) >>

\* line 624
CP_Pvcreate == Step("pvcreate", LvmChain[1], "LVM2_member", "vgcreate", "")
\* line 625
CP_Vgcreate == Step("vgcreate", LvmChain[2], "LVM2_member", "lvcreate", "")
\* line 626
CP_Lvcreate == Step("lvcreate", LvmChain[3], "", "mkfs_lv", "")
\* lines 627-628
CP_MkfsLv   == Step("mkfs_lv", LvmChain[4], "", "finish", "")

\* The command of lines 630-633
RootMkfs ==
    IF opts.filesystem_type = "btrfs" THEN MkfsBtrfsForce(resolved.root_base)
    ELSE Mkfs(opts.filesystem_type, resolved.root_base)

\* lines 629-634
CP_MkfsRoot == Step("mkfs_root", RootMkfs, opts.filesystem_type, "finish", "")

(***************************************************************************)
(* run_in_chroot                                                           *)
(***************************************************************************)
\* How long the inner commands' bodies are, at most
MaxBody == 2

\* The inner commands run_in_chroot is given: a body of a few characters, bare, after
\* a blank, or after a stdbuf wrapper of the caller's
Txt_stdbuf_o0 == <<"s","t","d","b","u","f"," ","-","o","0"," ">>
BodyChars     == {"l", "s", "'", "\"", "\n"}
Bodies        == UNION { [1..n -> BodyChars] : n \in 1..MaxBody }
Prefixes      == { <<>>, <<" ">>, Txt_stdbuf_o0, Txt_stdbuf_oL_eL }
InnerCommands == { pre \o body : pre \in Prefixes, body \in Bodies }

\* The timeouts the call sites of run_in_chroot pass, other than the default
LongTimeout == 600

NoCall == [inner_cmd |-> <<>>, wrapped_inner |-> <<>>, chroot_cmd |-> <<>>,
           streaming_command |-> <<>>, timeout |-> 0]

\* run_in_chroot(inner_cmd, timeout), as far as the process run_command starts for it
RunInChroot ==
    /\ \E inner_cmd \in InnerCommands, timeout \in {DefaultTimeout, CleanupTimeout, LongTimeout} :
          chroot_call' = [inner_cmd |-> inner_cmd,
                          wrapped_inner |-> wrapped_inner(inner_cmd),
                          chroot_cmd |-> chroot_cmd(inner_cmd),
                          streaming_command |-> wrap_for_streaming(chroot_cmd(inner_cmd)),
                          timeout |-> timeout]
    /\ UNCHANGED <<runVars, partVars, flow, fwd, insp>>

(***************************************************************************)
(* The workflow steps                                                      *)
(***************************************************************************)
Steps == {"mount_partitions", "configure_basic_system", "install_grub",
          "set_root_password", "create_user_and_services", "install_extras",
          "create_boot_label", "ignore_lid_switch"}

\* What a password input may hold once stripped
Passwords == {"", "secret", "hunter2"}

\* What the steps read: the mount tab's inputs, self.timezone, self.locales_added,
\* self.lang_selected, the user tab's inputs
StepArgs ==
    [root : {"", "/dev/sda3"}, efi : {"", "/dev/sda1"}, swap : {"", "/dev/sda2"},
     timezone : {"UTC"},
     locales_added : {<<>>, <<"de_DE.UTF-8">>, <<"en_US.UTF-8", "de_DE.UTF-8">>},
     lang_selected : {"", "de_DE.UTF-8"},
     root_password : Passwords,
     username : {"", "alice"}, user_password : Passwords]

\* One command of a step: its text, whether run_in_chroot runs it, its timeout, the
\* line written when it fails, whether the step tests what it returns, the line
\* written before it is run
Entry(text, chroot, timeout, error) ==
    [text |-> text, chroot |-> chroot, timeout |-> timeout, error |-> error,
     tested |-> TRUE, before |-> ""]

\* await self.run_command(text) or await self.run_in_chroot(text), the value dropped
Untested(text, chroot) ==
    [text |-> text, chroot |-> chroot, timeout |-> DefaultTimeout, error |-> "",
     tested |-> FALSE, before |-> ""]

\* [f(x) for x in xs]
RECURSIVE MapEntries(_, _, _)
MapEntries(texts, chroot, error) ==
    IF texts = <<>> THEN <<>>
    ELSE <<Entry(Head(texts), chroot, DefaultTimeout, error)>>
         \o MapEntries(Tail(texts), chroot, error)

\* locales_to_enable (line 789)
locales_to_enable(a) ==
    <<"en_US.UTF-8">> \o SelectSeq(a.locales_added, LAMBDA loc : loc # "en_US.UTF-8")

RECURSIVE LocaleGenLines(_)
LocaleGenLines(locs) ==
    IF locs = <<>> THEN <<>>
    ELSE <<"echo '" \o Head(locs) \o " UTF-8' >> /etc/locale.gen">>
         \o LocaleGenLines(Tail(locs))

\* lang (line 790)
lang(a) == IF a.lang_selected # "" THEN a.lang_selected ELSE "en_US.UTF-8"

\* The step's precondition: the error it writes before it returns, "" if it holds
StepRefusal(step, a) ==
    CASE step = "mount_partitions" /\ (a.root = "" \/ a.efi = "")
           -> "[ERROR] Please specify at least the Root and EFI partitions"
      [] step = "set_root_password" /\ a.root_password = ""
           -> "[ERROR] Please enter a root password"
      [] step = "create_user_and_services" /\ a.username = ""
           -> "[ERROR] Please enter a username first"
      [] step = "create_user_and_services" /\ a.username # "" /\ a.user_password = ""
           -> "[ERROR] Please enter a user password"
      [] OTHER -> ""

\* The commands the step awaits one after the other
StepCommands(step, a) ==
    CASE step = "mount_partitions" ->
           MapEntries(<< "mount " \o a.root \o " /mnt",
                         "mkdir -p /mnt/boot/efi",
                         "mount " \o a.efi \o " /mnt/boot/efi",
                         "swapon " \o a.swap >>,
                      FALSE, "[ERROR] Mounting failed.")
      [] step = "configure_basic_system" ->
           MapEntries(<< "ln -sf /usr/share/zoneinfo/" \o a.timezone \o " /etc/localtime",
                         "hwclock --systohc" >>
                      \o LocaleGenLines(locales_to_enable(a))
                      \o << "locale-gen",
                            "echo 'LANG=" \o lang(a) \o "' > /etc/locale.conf",
                            "echo 'LANGUAGE=" \o lang(a) \o "' >> /etc/locale.conf" >>,
                      TRUE, "[ERROR] Basic configuration failed")
      [] step = "install_grub" ->
           MapEntries(<< "sed -i 's|GRUB_CMDLINE_LINUX=\".*\"|GRUB_CMDLINE_LINUX=\"quiet splash intel_iommu=on iommu=pt pcie_ports=compat\"|' /etc/default/grub",
                         "grub-install --target=x86_64-efi --efi-directory=/boot/efi --bootloader-id=GRUB --removable",
                         "grub-mkconfig -o /boot/grub/grub.cfg" >>,
                      TRUE, "[ERROR] GRUB installation failed")
      [] step = "set_root_password" ->
           MapEntries(<< "echo 'root:" \o a.root_password \o "' | chpasswd" >>,
                      TRUE, "[ERROR] Root password setting failed")
      [] step = "create_user_and_services" ->
           MapEntries(<< "useradd -m -G wheel,storage,power -s /bin/bash " \o a.username,
                         "echo '" \o a.username \o ":" \o a.user_password \o "' | chpasswd",
                         "echo -e '[device]\\nwifi.backend=iwd' >> /etc/NetworkManager/NetworkManager.conf",
                         "systemctl enable iwd.service",
                         "systemctl enable bluetooth.service",
                         "systemctl enable systemd-resolved.service",
                         "systemctl enable NetworkManager.service",
                         "systemctl enable t2fanrd.service" >>,
                      TRUE, "[ERROR] User creation or service setup failed")
      [] step = "install_extras" ->
           [ i \in 1..4 |->
               Entry(<< "pacman -S --noconfirm tiny-dfr ffmpeg pipewire pipewire-zeroconf ghostty fastfetch",
                        "mkdir -p /etc/tiny-dfr",
                        "cp /usr/share/tiny-dfr/config.toml /etc/tiny-dfr/config.toml",
                        "sed -i 's/^MediaLayerDefault[[:space:]]*=[[:space:]]*false/MediaLayerDefault = true/' /etc/tiny-dfr/config.toml" >>[i],
                     TRUE, LongTimeout, "[ERROR] Extras installation failed") ]
      [] step = "create_boot_label" ->
           << Entry("pacman -S --noconfirm python-pillow tex-gyre-fonts", TRUE, LongTimeout,
                    "[ERROR] Failed to install boot label packages") >>
           \o MapEntries(<< "curl -fsSL -o disklabel-maker.py https://github.com/slsrepo/disklabel-utils/raw/refs/heads/main/disklabel-maker.py",
                            "chmod +x disklabel-maker.py",
                            "python3 disklabel-maker.py 'Arch' /usr/share/fonts/tex-gyre/texgyreheros-regular.otf /boot/efi/EFI/BOOT" >>,
                         TRUE, "[ERROR] Boot label creation failed")
      [] step = "ignore_lid_switch" ->
           MapEntries(<< "sed -i 's/^#*HandleLidSwitch=.*/HandleLidSwitch=ignore/' /etc/systemd/logind.conf",
                         "sed -i 's/^#*HandleLidSwitchDocked=.*/HandleLidSwitchDocked=ignore/' /etc/systemd/logind.conf",
                         "sed -i 's/^#*HandleLidSwitchExternalPower=.*/HandleLidSwitchExternalPower=ignore/' /etc/systemd/logind.conf" >>,
                      TRUE, "[ERROR] Failed to update lid switch settings")

\* What the step writes before its loop
StepPreamble(step) ==
    IF step = "install_extras" THEN <<"Installing extras ...">> ELSE <<>>

\* The steps that await commands without testing what all of them return
LooseSteps == {"set_timezone", "add_t2_repository", "add_t2_repo_to_chroot",
               "build_initramfs", "unmount_system"}

\* What they read: the timezone input, self.use_lvm
LooseArgs == [timezone : {"", "Europe/Berlin"}, use_lvm : BOOLEAN]

\* timezone (line 671)
timezone(a) == IF a.timezone # "" THEN a.timezone ELSE "UTC"

\* repo_config (lines 718 and 765)
repo_config == "[arch-mact2]\\nServer = https://github.com/NoaHimesaka1873/arch-mact2-mirror/releases/download/release\\nSigLevel = Never"

\* The commands these steps await one after the other
LooseStepCommands(step, a) ==
    CASE step = "set_timezone" ->
           << Untested("timedatectl set-ntp true", FALSE),
              Untested("timedatectl set-timezone " \o timezone(a), FALSE),
              Untested("hwclock --systohc", FALSE),
              Untested("timedatectl", FALSE) >>
      [] step = "add_t2_repository" ->
           << Untested("echo -e '" \o repo_config \o "' >> /etc/pacman.conf", FALSE),
              Untested("pacman -Sy", FALSE) >>
      [] step = "add_t2_repo_to_chroot" ->
           << Untested("echo -e '" \o repo_config \o "' >> /etc/pacman.conf", TRUE),
              Untested("pacman -Sy", TRUE) >>
      [] step = "build_initramfs" ->
           (IF a.use_lvm
            THEN << Untested("sed -i 's|HOOKS=(base udev autodetect microcode modconf kms keyboard keymap consolefont block filesystems fsck)|HOOKS=(base udev autodetect microcode modconf kms keyboard keymap consolefont block lvm2 filesystems fsck)|' /etc/mkinitcpio.conf", TRUE) >>
            ELSE <<>>)
           \o << [Entry("mkinitcpio -P", TRUE, LongTimeout, "[ERROR] Initramfs build failed")
                    EXCEPT !.before = "Building initramfs (This might take a while)..."] >>
      [] step = "unmount_system" ->
           << Untested("umount -R /mnt", FALSE), Untested("swapoff -a", FALSE) >>

\* What these steps write before their first command
LooseStepPreamble(step, a) ==
    IF step = "set_timezone" /\ timezone(a) = "UTC"
    THEN <<"No timezone specified, using UTC">> ELSE <<>>

\* What the step writes after its loop
StepSuccess(step) ==
    CASE step = "mount_partitions"         -> <<"Partitions mounted successfully!">>
      [] step = "configure_basic_system"   -> <<"Basic system configuration completed!">>
      [] step = "install_grub"             -> <<"GRUB installed successfully!">>
      [] step = "set_root_password"        -> <<"Root password set successfully!">>
      [] step = "create_user_and_services" -> <<"User and services configured successfully!">>
      [] step = "install_extras"           -> <<"Extras installed successfully!",
                                                "tiny-dfr config available in /etc/tiny-dfr/config.toml">>
      [] step = "create_boot_label"        -> <<"Boot icon created successfully!">>
      [] step = "ignore_lid_switch"        -> <<"Lid switch handling set to ignore in /etc/systemd/logind.conf!">>
      [] step = "set_timezone"             -> <<"Timezone configured successfully!">>
      [] step = "add_t2_repository"        -> <<"T2 repository added successfully!">>
      [] step = "add_t2_repo_to_chroot"    -> <<"T2 repository (GitHub) added to chroot successfully!">>
      [] step = "build_initramfs"          -> <<"Initramfs built successfully!">>
      [] step = "unmount_system"           -> <<"Filesystems unmounted. You can now safely power off or reboot.">>

NoSeq == [step |-> "none", pc |-> "idle", commands |-> <<>>, i |-> 0, issued |-> <<>>,
          results |-> <<>>, console |-> <<>>]

\* on_button_pressed awaits a step: its precondition, its command list
StepCalled ==
    /\ flow.pc \in {"idle", "returned"}
    /\ \E step \in Steps, a \in StepArgs :
          flow' = IF StepRefusal(step, a) # ""
                 THEN [NoSeq EXCEPT !.step = step, !.pc = "returned",
                                    !.console = <<StepRefusal(step, a)>>]
                 ELSE [NoSeq EXCEPT !.step = step, !.pc = "loop",
                                    !.commands = StepCommands(step, a), !.i = 1,
                                    !.console = StepPreamble(step)]
    /\ UNCHANGED <<runVars, partVars, chroot_call, fwd, insp>>

\* on_button_pressed awaits a step of those that do not test every command
LooseStepCalled ==
    /\ flow.pc \in {"idle", "returned"}
    /\ \E step \in LooseSteps, a \in LooseArgs :
          flow' = [NoSeq EXCEPT !.step = step, !.pc = "loop",
                                !.commands = LooseStepCommands(step, a), !.i = 1,
                                !.console = LooseStepPreamble(step, a)]
    /\ UNCHANGED <<runVars, partVars, chroot_call, fwd, insp>>

\* The steps on_button_pressed calls without await (lines 438 and 459)
UnawaitedSteps == {"add_t2_repo_mirror_to_chroot", "recurring_network_notifications_fix"}

\* repo_config of add_t2_repo_mirror_to_chroot (line 776)
repo_config_mirror == "[arch-mact2]\\nServer = https://mirror.funami.tech/arch-mact2/os/x86_64\\nSigLevel = Never"

\* The commands of add_t2_repo_mirror_to_chroot
add_t2_repo_mirror_to_chroot ==
    << Untested("echo -e '" \o repo_config_mirror \o "' >> /etc/pacman.conf", TRUE),
       Untested("pacman -Sy", TRUE) >>

\* The commands of recurring_network_notifications_fix
recurring_network_notifications_fix ==
    << Entry("cat <<EOF | sudo tee /etc/udev/rules.d/99-network-t2-ncm.rules\\nSUBSYSTEM==\"net\", ACTION==\"add\", ATTR{address}==\"ac:de:48:00:11:22\", NAME=\"t2_ncm\"\\nEOF",
             TRUE, DefaultTimeout,
             "[ERROR] Failed to disable the recurring network manager notifications."),
       Entry("cat <<EOF | sudo tee /etc/NetworkManager/conf.d/99-network-t2-ncm.conf\\n[main]\\nno-auto-default=t2_ncm\\nEOF",
             TRUE, DefaultTimeout,
             "[ERROR] Failed to disable the recurring network manager notifications.") >>

UnawaitedStepCommands(step) ==
    IF step = "add_t2_repo_mirror_to_chroot" THEN add_t2_repo_mirror_to_chroot
    ELSE recurring_network_notifications_fix

\* on_button_pressed calls a step without await: the call makes a coroutine object,
\* the statement drops it, and the press handler returns; flow.commands is what the
\* coroutine would have issued
UnawaitedStepCalled ==
    /\ flow.pc \in {"idle", "returned"}
    /\ \E step \in UnawaitedSteps :
          flow' = [NoSeq EXCEPT !.step = step, !.pc = "returned",
                                !.commands = UnawaitedStepCommands(step), !.i = 1]
    /\ UNCHANGED <<runVars, partVars, chroot_call, fwd, insp>>

\* C33: when the press handler of a command-issuing step returns, the step's
\* commands were issued and ran to completion: all of them, or those up to the one
\* whose failure ended the step.
C33_PressRunsTheStep ==
    (flow.pc = "returned" /\ flow.commands # <<>>) =>
        /\ flow.issued # <<>>
        /\ Len(flow.results) = Len(flow.issued)
        /\ \/ Len(flow.issued) = Len(flow.commands)
           \/ ~flow.results[Len(flow.results)]

\* AfterCommand, were the loop to go on after a failure
AfterCommand_continue(ok) == IF ok THEN "loop" ELSE "loop"

\* if not await self.run_command(cmd): ...; return
AfterCommand(ok) == IF ok THEN "loop" ELSE "returned"

\* One turn of the step's loop: the command is awaited
StepIssue ==
    /\ flow.pc = "loop" /\ flow.i <= Len(flow.commands)
    /\ \E ok \in BOOLEAN :
          LET e == flow.commands[flow.i]
              said == IF e.before # "" THEN Append(flow.console, e.before)
                      ELSE flow.console
          IN  flow' = [flow EXCEPT !.issued = Append(@, e),
                                 !.results = Append(@, ok),
                                 !.i = @ + 1,
                                 !.pc = IF e.tested THEN AfterCommand(ok) ELSE "loop",
                                 !.console = IF ok \/ ~e.tested THEN said
                                             ELSE Append(said, e.error)]
    /\ UNCHANGED <<runVars, partVars, chroot_call, fwd, insp>>

\* The loop is over: the step reports success
StepReturns ==
    /\ flow.pc = "loop" /\ flow.i > Len(flow.commands)
    /\ flow' = [flow EXCEPT !.pc = "returned",
                           !.console = @ \o StepSuccess(flow.step)]
    /\ UNCHANGED <<runVars, partVars, chroot_call, fwd, insp>>

(***************************************************************************)
(* The specifications                                                      *)
(***************************************************************************)
InitRunVars ==
    /\ stack = <<>>
    /\ done = NoDone
    /\ cleanups = 0
    /\ orphans = 0
    /\ faults = 0

\* __init__ (lines 93-101), the mount tab empty, the start tab active
InitPartVars ==
    /\ cp_pc = "idle"
    /\ opts = [disk |-> <<>>, partition_mode |-> "partition_with_swap",
               use_lvm |-> TRUE, filesystem_type |-> "ext4"]
    /\ existing = <<>>
    /\ resolved = NoResolved
    /\ issued = <<>>
    /\ results = <<>>
    /\ unawaited = <<>>
    /\ console = <<>>
    /\ inputs = NoInputs
    /\ active_tab = "start_tab"

InitSeqVars ==
    /\ flow = NoSeq
    /\ chroot_call = NoCall
    /\ fwd = NoForward
    /\ insp = NoInspection

\* create_partitions about to inspect a device
InitInspect ==
    /\ InitRunVars /\ InitPartVars
    /\ table = {} /\ table0 = {} /\ tail_free = TRUE
    /\ flow = NoSeq /\ chroot_call = NoCall /\ fwd = NoForward
    /\ insp \in { NewInspection(dev) : dev \in Devices }

\* run_command called on a command whose process is about to write one of the streams
InitForward ==
    /\ InitRunVars /\ InitPartVars
    /\ table = {} /\ table0 = {} /\ tail_free = TRUE
    /\ flow = NoSeq /\ chroot_call = NoCall
    /\ fwd \in { NewForward(stream) : stream \in Streams }
    /\ insp = NoInspection

InitRun ==
    /\ InitRunVars /\ InitPartVars /\ InitSeqVars
    /\ table = {} /\ table0 = {} /\ tail_free = TRUE

InitPart ==
    /\ InitRunVars /\ InitPartVars /\ InitSeqVars
    /\ table \in InitialTables
    /\ table0 = table
    /\ tail_free \in BOOLEAN

NextRun ==
    \/ Submit \/ EntryRaises \/ SpawnFails \/ SpawnNoPipe \/ SpawnOk
    \/ PollTimedOut \/ ReadData \/ ForwardRaises \/ ReadEOF \/ ReadSlice \/ ReadRaises
    \/ FlushRaises \/ WaitReturns \/ KillWaitReturns \/ RetFalse
    \/ HandlerCleanup \/ HandlerRaises \/ Propagate
    \/ ProcWrites \/ ProcClosesOutput \/ ProcExits \/ OrphanExits \/ TimePasses

NextPart ==
    \/ PartitionBtn \/ RadioSetChanged
    \/ CP_Start \/ CP_Initialize \/ CP_Append \/ CP_Resolve
    \/ CP_MkfsFat \/ CP_Mkswap
    \/ CP_Pvcreate \/ CP_Vgcreate \/ CP_Lvcreate \/ CP_MkfsLv \/ CP_MkfsRoot

NextPartDevice == NextPart \/ DeviceCleared

NextSilent ==
    \/ Submit \/ SpawnOk \/ PollTimedOut \/ ReadSlice \/ TimePasses
    \/ ReadData \/ ReadEOF \/ WaitReturns \/ KillWaitReturns \/ RetFalse
    \/ CleanupProcWrites \/ CleanupProcClosesOutput \/ CleanupProcExits

NextSeq == StepCalled \/ StepIssue \/ StepReturns

NextSteps == StepCalled \/ LooseStepCalled \/ StepIssue \/ StepReturns

NextButtons ==
    StepCalled \/ LooseStepCalled \/ UnawaitedStepCalled \/ StepIssue \/ StepReturns

NextForward == ForwardData \/ ForwardEOF

NextInspect == Inspect \/ Classify \/ ExtractIndex

NextChroot == RunInChroot

SpecRun    == InitRun /\ [][NextRun]_vars
SpecPart   == InitPart /\ [][NextPart]_vars
SpecPartDevice == InitPart /\ [][NextPartDevice]_vars
SpecSilent == InitRun /\ [][NextSilent]_vars /\ RunnerProgress
SpecSeq    == InitRun /\ [][NextSeq]_vars
SpecSteps  == InitRun /\ [][NextSteps]_vars
SpecButtons == InitRun /\ [][NextButtons]_vars
SpecForward == InitForward /\ [][NextForward]_vars
SpecInspect == InitInspect /\ [][NextInspect]_vars
SpecChroot == InitRun /\ [][NextChroot]_vars

(***************************************************************************)
(* The claims                                                              *)
(***************************************************************************)
Returned   == done.pc = "returned"
Outermost  == stack = <<>> /\ Returned

\* C1: a command still running when the elapsed time exceeds its timeout makes
\* run_command return False, with the process killed and reaped at the return,
\* whatever the command does with its output.
C1_OverrunReturnsFalseAndReaps ==
    (Returned /\ done.overran) =>
        /\ done.result = "False"
        /\ done.proc.state \in {"killed", "exited"}
        /\ done.proc.reaped

\* C2: a failing run_command call whose text contains pacman or pacstrap has
\* cleanup_pacman_lock invoked exactly once in total, whatever the cleanup command does.
C2_CleanupExactlyOnce ==
    (Outermost /\ done.result = "False" /\ needs_pacman_cleanup(done.command)) =>
        cleanups = 1

\* C6: on every return path of run_command the process it started is no longer
\* running at the return: it has exited and been awaited, or it has been killed.
C6_NoProcessRunningAtReturn ==
    Returned =>
        \/ done.proc.state = "none"
        \/ done.proc.state = "exited" /\ done.proc.reaped
        \/ done.proc.state = "killed"

\* The processes started by run_command that are running
RunningCount ==
    orphans + Cardinality({ i \in 1..Len(stack) : stack[i].proc.state = "running" })

\* C12: at every moment at most one process started by run_command is running: the
\* cleanup command and the next command are started only when the one before is over.
C12_AtMostOneCommandExecuting == RunningCount <= 1

\* C13: no exception leaves run_command: every call ends by returning True or False.
C13_NeverRaises ==
    /\ done.result # "raised"
    /\ \A i \in 1..Len(stack) : stack[i].pc # "raise"

\* The process has exited with code 0
ExitedZero(f) == f.proc.state = "exited" /\ f.proc.rc = 0

\* C14 as stated: run_command returns True if and only if the output reached its end
\* before the timeout check fired, no read exception occurred and the exit code is 0,
\* and False otherwise.
C14_TrueIffNoReadException ==
    Returned =>
        /\ done.result \in {"True", "False"}
        /\ done.result = "True" <=> (done.eof /\ done.err # "read" /\ ExitedZero(done))

\* C14, amended: run_command returns True if and only if the output reached its end
\* before the timeout check fired, no exception at all was raised inside the call (by
\* the read, by forwarding or flushing the output, by the wait) and the exit code is
\* 0; a call that returns otherwise returns False.
C14_TrueIffNoException ==
    Returned =>
        /\ done.result \in {"True", "False"}
        /\ done.result = "True" <=> (done.eof /\ done.err = "none" /\ ExitedZero(done))

C14_Witness ==
    /\ Returned /\ done.result = "False"
    /\ done.eof /\ done.err = "exception" /\ ExitedZero(done)

\* The command texts run_command is given that contain pacman or pacstrap in any case
PacmanTexts ==
    { c \in Commands \cup {chroot_cmd(Txt_rm_lock)} :
        Contains(Lower(c), Txt_pacman) \/ Contains(Lower(c), Txt_pacstrap) }

\* C15: cleanup_pacman_lock is invoked only by a call that has failed and whose text
\* contains pacman or pacstrap in any case: never for a call that returns True, never
\* for a failing call whose text contains neither.
C15_CleanupOnlyForFailingPacman ==
    /\ \A i \in 1..(Len(stack) - 1) :
          stack[i].err # "none" /\ stack[i].command \in PacmanTexts
    /\ (Outermost /\ (done.result = "True" \/ done.command \notin PacmanTexts))
          => cleanups = 0

C15_Witness ==
    /\ Outermost /\ done.result = "False" /\ done.err = "exit"
    /\ done.command \notin PacmanTexts /\ cleanups = 0

\* C19: a cleanup_pacman_lock call runs one chroot command and is over: its failure
\* starts no other cleanup, so that run_command is never nested deeper than the
\* cleanup's own call.
C19_CleanupStartsNoCleanup == Len(stack) <= 2

\* C21: a command that writes nothing, keeps its output open and never exits does not
\* block run_command for ever: the call sees the timeout exceeded at a poll, kills the
\* process and returns False.
\* (A behaviour in which the calls nest as deep as the model lets them is left aside.)
C21_SilentCommandReturnsFalse ==
    (stack # <<>>) ~> \/ Outermost /\ done.result = "False" /\ done.err = "timeout"
                      \/ Len(stack) >= MaxDepth

\* ---- the forwarding of the output ----
\* The whole stream decoded at once, carriage returns turned into line feeds
WholeText(stream) == ReplaceCR(Decode(<<>>, stream, TRUE).out)

\* The line feeds of a text, and the k-th of them (0 for k = 0)
Breaks(t)   == { i \in 1..Len(t) : t[i] = LF }
Break(t, k) == IF k = 0 THEN 0
               ELSE CHOOSE i \in Breaks(t) : Cardinality({ j \in Breaks(t) : j <= i }) = k

\* The lines of a text, each without its blanks at the right end: those a line feed
\* ends, then what follows the last line feed if anything does
LinesOf(t) ==
    LET n    == Cardinality(Breaks(t))
        last == SubSeq(t, Break(t, n) + 1, Len(t))
    IN  [ k \in 1..n |-> RStrip(SubSeq(t, Break(t, k - 1) + 1, Break(t, k) - 1)) ]
        \o (IF last # <<>> THEN <<RStrip(last)>> ELSE <<>>)

\* The line a console.write of run_command forwarded: what follows the two blanks
Forwarded(w) == [ k \in 1..Len(w) |-> SubSeq(w[k], 3, Len(w[k])) ]

\* C28: however the output stream is split into reads, the lines run_command writes
\* are the whole stream, carriage returns turned into line breaks, split at the line
\* breaks, each line stripped at the right; when the stream ends every character
\* received, a last unterminated line too, has been forwarded.
C28_ForwardingIgnoresChunking ==
    /\ fwd.pc = "returned" =>
          /\ Forwarded(fwd.written) = LinesOf(WholeText(fwd.stream))
          /\ fwd.pend = <<>>
          /\ \A k \in 1..Len(fwd.written) :
                fwd.written[k] = <<>> \/ SubSeq(fwd.written[k], 1, 2) = <<" ", " ">>
    /\ fwd.pc = "read" =>
          LET all == LinesOf(WholeText(fwd.stream))
          IN  /\ Len(fwd.written) <= Len(all)
              /\ Forwarded(fwd.written) = SubSeq(all, 1, Len(fwd.written))

C28_Witness ==
    /\ fwd.pc = "returned" /\ fwd.reads = 3
    /\ fwd.stream = <<"a", LeadByte, ContByte, CR>>
    /\ fwd.written = << <<" ", " ", "a", "U+00E9">> >>

\* ---- the disk inspector ----
\* The children lsblk listed, as it printed them
RawChildren ==
    IF insp.dev.has_children /\ ~insp.dev.children.null THEN insp.dev.children.v ELSE <<>>

\* C29: the disk inspector returns the device's partitions sorted by ascending start
\* offset, the last element being the partition that starts last, and the empty
\* sequence for a device without children (the key missing or null).
C29_PartsSortedByStart ==
    insp.pc = "inspected" =>
        LET ps == insp.parts
            n  == Len(ps)
        IN  /\ n = Len(RawChildren)
            /\ (~insp.dev.has_children \/ insp.dev.children.null) => ps = <<>>
            /\ \A i \in 1..(n - 1) : ps[i].start < ps[i + 1].start
            /\ \A i \in 1..n :
                  /\ RawChildren[i].start.v <= ps[n].start
                  /\ \E k \in 1..n : /\ ps[k].name = RawChildren[i].name
                                      /\ ps[k].start = RawChildren[i].start.v
                                      /\ ps[k].kname = Txt_dev \o RawChildren[i].name

C29_Witness ==
    /\ insp.pc = "inspected" /\ Len(insp.parts) = 3
    /\ RawChildren[1].start.v > RawChildren[2].start.v
    /\ RawChildren[2].start.v > RawChildren[3].start.v
    /\ insp.parts[3].name = RawChildren[1].name

\* The child that starts last, as lsblk printed it
RawLast == CHOOSE c \in { RawChildren[i] : i \in 1..Len(RawChildren) } :
               \A i \in 1..Len(RawChildren) : RawChildren[i].start.v <= c.start.v
LowerOf(j) == IF j.null THEN <<>> ELSE Lower(j.v)

\* C30: a partition is classified Linux-compatible if and only if its lower-cased
\* partition type is 0fc63daf-8483-4772-8e79-3d69d8477de4 or 8300, or its lower-cased
\* filesystem type is ext4, xfs, btrfs or f2fs; classified again, the same values
\* give the same verdict.
C30_LinuxCompatibleVerdict ==
    \A k \in 1..Len(insp.verdicts) :
        /\ insp.verdicts[k]
              <=> \/ LowerOf(RawLast.parttype) \in
                       { <<"0","f","c","6","3","d","a","f","-","8","4","8","3","-",
                           "4","7","7","2","-","8","e","7","9","-",
                           "3","d","6","9","d","8","4","7","7","d","e","4">>,
                         <<"8","3","0","0">> }
                  \/ LowerOf(RawLast.fstype) \in
                       { <<"e","x","t","4">>, <<"x","f","s">>, <<"b","t","r","f","s">>,
                         <<"f","2","f","s">> }
        /\ insp.verdicts[k] = insp.verdicts[1]

C30_Witness ==
    /\ Len(insp.verdicts) = 2 /\ insp.verdicts[2]
    /\ Len(insp.parts) = 2
    /\ RawLast.parttype = Json(Guid_msdata) /\ RawLast.fstype = Json(Txt_Btrfs)

\* ---- create_partitions ----
Started      == cp_pc # "idle" /\ opts.disk # <<>>
IssuedCmds(name) == SelectSeq(issued, LAMBDA c : c.cmd = name)
FormatCmds   == {"mkfs.fat -F32", "mkswap", "pvcreate", "mkfs", "mkfs -f"}
WroteLine(l) == \E i \in 1..Len(console) : console[i] = l
Succeeded    == cp_pc = "returned" /\ WroteLine("Partitioning completed successfully!")
\* The partition of the table that a path names
IsNewPartition(path) ==
    \E p \in table : Txt_dev \o PartName(opts.disk, p.num) = path /\ p.new
\* The trailing partition at the call
Trailing0    == LET ps == parts_(table0) IN ps[Len(ps)]
\* The append path has been left by a call on a device that cannot hold the appended set
AppendCannotFit == Started /\ table0 # {} /\ ~tail_free /\ cp_pc # "add"

\* C3: in Append mode no partition that existed before the call (other than a deleted
\* trailing Linux partition) is the target of mkfs.fat, mkswap, pvcreate or mkfs: only
\* partitions created by the append are formatted.
C3_AppendFormatsOnlyNewPartitions ==
    (Started /\ table0 # {}) =>
        \A i \in 1..Len(issued) :
            (issued[i].cmd \in FormatCmds /\ issued[i].dev # Txt_vg0_root)
                => IsNewPartition(issued[i].dev)

\* C4: existing partitions, a failing append and a Linux-compatible trailing partition:
\* exactly one sfdisk --delete, of that partition's index, and at most one more append.
C4_DeleteTrailingAndRetryOnce ==
    (AppendCannotFit /\ last_is_linux(Trailing0)) =>
        /\ IssuedCmds("sfdisk --delete")
              = << SfdiskDelete(opts.disk, TrailingDigits(Trailing0.name)) >>
        /\ Len(IssuedCmds("sfdisk --append")) \in {1, 2}

\* C5: existing partitions, a failing append and a trailing partition that is not
\* Linux-compatible: the call aborts with the refusal error and deletes nothing.
C5_RefusesToDeleteNonLinux ==
    (AppendCannotFit /\ ~last_is_linux(Trailing0)) =>
        /\ cp_pc = "returned"
        /\ WroteLine("[ERROR] Not enough free tail space and last partition is not Linux; refusing to delete.")
        /\ IssuedCmds("sfdisk --delete") = <<>>

InitializeSelected ==
    \/ cp_pc = "whole"
    \/ \E i \in 1..Len(issued) :
          /\ issued[i].cmd = "sfdisk --wipe always"
          /\ issued[i].script[1].label = "gpt"
AppendSelected ==
    \/ cp_pc = "add"
    \/ WroteLine("Adding partitions at the end of the disk...")

\* C7: the Initialize path (sfdisk --wipe always, label: gpt) is taken if and only if
\* the inspection at the start returns no partition; otherwise the Append path is.
C7_InitializeIffNoPartitions ==
    Started =>
        /\ InitializeSelected <=> (Len(existing) = 0 /\ table0 = {})
        /\ AppendSelected <=> (Len(existing) # 0 /\ table0 # {})

C7_Witness ==
    /\ Started /\ cp_pc = "resolve"
    /\ AppendSelected /\ Len(existing) = 2

\* C8: a call that starts on a device without partitions never issues sfdisk --delete,
\* whatever the commands' outcomes.
C8_EmptyDeviceNeverDeletes ==
    (Started /\ table0 = {}) =>
        /\ IssuedCmds("sfdisk --delete") = <<>>
        /\ \A i \in 1..Len(unawaited) : unawaited[i].cmd # "sfdisk --delete"

C8_Witness ==
    /\ Started /\ table0 = {} /\ cp_pc = "returned"
    /\ Len(issued) >= 2
    /\ ~Succeeded

\* C9: after a successful Initialize of an empty device the resolved set is exactly the
\* new partitions in start order: (EFI, swap, root base) with swap, (EFI, root base)
\* and an empty swap path without.
C9_InitializeResolvesNewSet ==
    (Started /\ table0 = {} /\ resolved # NoResolved) =>
        LET ps == parts_(table)
            n  == Len(ps)
        IN  /\ \A p \in table : p.new
            /\ n = IF include_swap THEN 3 ELSE 2
            /\ resolved.efi_part = ps[1].kname /\ ps[1].parttype = Guid_uefi
            /\ IF include_swap
               THEN resolved.swap_part = ps[2].kname /\ ps[2].parttype = Guid_swap
               ELSE resolved.swap_part = <<>>
            /\ resolved.root_base = ps[n].kname /\ ps[n].parttype \in {Guid_linux, Guid_lvm}
            /\ \A i \in 1..(n - 1) : ps[i].start < ps[i + 1].start

C9_Witness ==
    /\ Started /\ table0 = {} /\ include_swap
    /\ cp_pc = "mkswap"
    /\ resolved.swap_part = Txt_dev \o PartName(opts.disk, 2)

\* C10: empty device, swap, LVM, ext4, every command succeeding: the Initialize script
\* (1 GiB EFI, 4096 MiB swap, LVM-typed remainder), mkfs.fat, mkswap, pvcreate,
\* vgcreate vg0, lvcreate 100%FREE root, mkfs.ext4 /dev/vg0/root are issued in this
\* order, and /dev/vg0/root is the root path handed to the mount stage.
C10_Scenario ==
    (Succeeded /\ table0 = {} /\ include_swap /\ opts.use_lvm
       /\ opts.filesystem_type = "ext4") =>
        LET part(i) == Txt_dev \o PartName(opts.disk, i)
            none    == [n |-> 0, unit |-> ""]
            script  == << [label |-> "gpt", size |-> none, type |-> ""],
                          [label |-> "", size |-> [n |-> 1, unit |-> "GiB"], type |-> "uefi"],
                          [label |-> "", size |-> [n |-> 4096, unit |-> "MiB"], type |-> "swap"],
                          [label |-> "", size |-> none,
                           type |-> "E6D6D379-F507-44C2-A23C-238F2A3DF928"] >>
            cmd(c, dev, sc, fs) == [cmd |-> c, dev |-> dev, script |-> sc, arg |-> <<>>, fs |-> fs]
        IN  /\ issued = << cmd("sfdisk --wipe always", opts.disk, script, ""),
                           cmd("mkfs.fat -F32", part(1), <<>>, ""),
                           cmd("mkswap", part(2), <<>>, ""),
                           cmd("pvcreate", part(3), <<>>, ""),
                           cmd("vgcreate vg0", part(3), <<>>, ""),
                           cmd("lvcreate -l 100%FREE vg0 -n root", <<>>, <<>>, ""),
                           cmd("mkfs", Txt_vg0_root, <<>>, "ext4") >>
            /\ inputs.root_input = Txt_vg0_root
            /\ unawaited = <<>>

C10_Witness ==
    /\ Succeeded /\ table0 = {} /\ include_swap /\ opts.use_lvm
    /\ opts.filesystem_type = "ext4" /\ opts.disk = Disk_nvme
    /\ Len(issued) = 7

\* The commands of the LVM chain among those issued
IsLvmCommand(c) ==
    \/ c.cmd \in {"pvcreate", "vgcreate vg0", "lvcreate -l 100%FREE vg0 -n root"}
    \/ c.cmd = "mkfs" /\ c.dev = Txt_vg0_root
LvmIssued == SelectSeq(issued, IsLvmCommand)
TeardownCmds == {"pvremove", "vgremove", "lvremove", "wipefs"}

\* C16: the LVM chain is issued in the order pvcreate, vgcreate vg0, lvcreate root, mkfs
\* on /dev/vg0/root, each command right after the success of the one before; after a
\* failure nothing more is issued, no teardown command either, and the call does not
\* report success.
C16_LvmChainInOrderNoRollback ==
    Started =>
        LET chain == << [cmd |-> "pvcreate", dev |-> resolved.root_base],
                        [cmd |-> "vgcreate vg0", dev |-> resolved.root_base],
                        [cmd |-> "lvcreate -l 100%FREE vg0 -n root", dev |-> <<>>],
                        [cmd |-> "mkfs", dev |-> Txt_vg0_root] >>
            n == Len(LvmIssued)
            first == Len(issued) - n + 1
        IN  /\ n <= 4
            /\ n > 0 => opts.use_lvm
            /\ \A k \in 1..n :
                  /\ issued[first + k - 1] = LvmIssued[k]
                  /\ LvmIssued[k].cmd = chain[k].cmd /\ LvmIssued[k].dev = chain[k].dev
                  /\ first + k - 1 > 1 /\ results[first + k - 2]
            /\ \A i \in 1..Len(issued) :
                  /\ issued[i].cmd \notin TeardownCmds
                  /\ (IsLvmCommand(issued[i]) /\ ~results[i])
                        => (i = Len(issued) /\ cp_pc = "returned" /\ ~Succeeded)
            /\ \A i \in 1..Len(unawaited) : unawaited[i].cmd \notin TeardownCmds

C16_Witness ==
    /\ Started /\ cp_pc = "returned" /\ opts.use_lvm
    /\ Len(LvmIssued) = 3
    /\ issued[Len(issued)].cmd = "lvcreate -l 100%FREE vg0 -n root"
    /\ ~results[Len(results)]

\* C17: after a successful call the root path handed to the mount stage is
\* /dev/vg0/root with LVM and the root base partition without; without LVM and with
\* btrfs the mkfs command on the root base partition carries -f.
C17_RootPathHandedOver ==
    Succeeded =>
        /\ opts.use_lvm => (inputs.root_input = Txt_vg0_root
                              /\ resolved.root_base # Txt_vg0_root)
        /\ ~opts.use_lvm => inputs.root_input = resolved.root_base
        /\ (~opts.use_lvm /\ opts.filesystem_type = "btrfs") =>
              /\ issued[Len(issued)] = [cmd |-> "mkfs -f", dev |-> resolved.root_base,
                                         script |-> <<>>, arg |-> <<>>, fs |-> "btrfs"]
              /\ \A i \in 1..Len(issued) : issued[i].cmd # "mkfs"

C17_Witness ==
    /\ Succeeded /\ ~opts.use_lvm /\ opts.filesystem_type = "btrfs"
    /\ inputs.root_input = resolved.root_base /\ resolved.root_base # <<>>

ProvisionCmds == {"mkfs.fat -F32", "mkswap", "pvcreate", "vgcreate vg0",
                  "lvcreate -l 100%FREE vg0 -n root", "mkfs", "mkfs -f"}
TableCmds     == {"sfdisk --wipe always", "sfdisk --append"}

\* C20: a provisioning command (mkfs.fat, mkswap, pvcreate, vgcreate, lvcreate, mkfs)
\* is issued only after a partition-table command (the Initialize sfdisk, the Append
\* sfdisk or the retried Append) of the same call has run to its end and returned
\* success.
C20_ProvisionOnlyAfterTableApplied ==
    \A i \in 1..Len(issued) :
        issued[i].cmd \in ProvisionCmds =>
            \E j \in 1..(i - 1) : issued[j].cmd \in TableCmds /\ results[j]

\* How often a command of that name was handed to run_command, awaited or not
TimesCalled(name) ==
    Len(IssuedCmds(name)) + Len(SelectSeq(unawaited, LAMBDA c : c.cmd = name))

\* C22: in one create_partitions call sfdisk --delete is issued at most once, the
\* append at most twice, the Initialize command at most once, every provisioning
\* command at most once; a command that failed is followed by no other command.
C22_NoRetryButTheAppend ==
    /\ TimesCalled("sfdisk --delete") <= 1
    /\ TimesCalled("sfdisk --append") <= 2
    /\ TimesCalled("sfdisk --wipe always") <= 1
    /\ \A name \in ProvisionCmds : TimesCalled(name) <= 1
    /\ TimesCalled("mkfs") + TimesCalled("mkfs -f") <= 1
    /\ \A i \in 1..Len(issued) : \A j \in 1..Len(issued) :
          (i # j) => issued[i] # issued[j]
    /\ \A i \in 1..Len(issued) :
          ~results[i] => (i = Len(issued) /\ cp_pc = "returned")

C22_Witness ==
    /\ Started /\ cp_pc = "returned" /\ ~Succeeded
    /\ Len(issued) = 3 /\ ~results[3]
    /\ issued[1].cmd = "sfdisk --wipe always" /\ issued[3].cmd = "mkswap"

\* The call is over: it has returned, or an exception has left it
CallOver == Started /\ cp_pc \in {"returned", "raised"}

\* C23: when the append fails and the disk, inspected again, holds no partition at
\* all, create_partitions reports an error and stops: no delete, no second append, no
\* formatting command.
C23_NoPartitionsAborts ==
    (CallOver /\ AppendSelected /\ ~tail_free /\ table = {}) =>
        /\ cp_pc = "returned"
        /\ WroteLine("[ERROR] No existing partitions; use Whole drive mode.")
        /\ IssuedCmds("sfdisk --delete") = <<>>
        /\ TimesCalled("sfdisk --append") <= 1
        /\ \A i \in 1..Len(issued) : issued[i].cmd \notin ProvisionCmds

\* The second inspection (line 603) has been made
Reinspected == Started /\ cp_pc \notin {"whole", "add", "resolve"} /\ existing # <<>>

\* C25: called with no disk, create_partitions reports an error, issues no command,
\* inspects no disk and leaves the mount tab's inputs and the active tab as they were;
\* and when the inspection after the table commands yields fewer partitions than the
\* set takes (3 with swap, 2 without), it reports a failure and formats nothing.
C25_PreconditionFailuresReported ==
    /\ (cp_pc # "idle" /\ opts.disk = <<>>) =>
          /\ cp_pc = "returned"
          /\ console = <<"[ERROR] No disk specified">>
          /\ issued = <<>> /\ unawaited = <<>> /\ existing = <<>>
          /\ inputs = NoInputs /\ active_tab # "mount_tab"
    /\ (Reinspected /\ Cardinality(table) < (IF include_swap THEN 3 ELSE 2)) =>
          /\ cp_pc = "returned"
          /\ \A i \in 1..Len(issued) : issued[i].cmd \notin ProvisionCmds
          /\ ~Succeeded

\* Swap was requested: the radio button "Create partitions, with swap"
SwapRequested == opts.partition_mode = "partition_with_swap"

\* The entry of a script: its size and its type
SizedEntry(n, unit, ty) == [label |-> "", size |-> [n |-> n, unit |-> unit], type |-> ty]
RemainderEntry(ty)      == [label |-> "", size |-> [n |-> 0, unit |-> ""], type |-> ty]

\* The partition entries both scripts are to hold, in order
ExpectedEntries ==
    <<SizedEntry(1, "GiB", "uefi")>>
    \o (IF SwapRequested THEN <<SizedEntry(4096, "MiB", "swap")>> ELSE <<>>)
    \o <<RemainderEntry(IF opts.use_lvm THEN "E6D6D379-F507-44C2-A23C-238F2A3DF928"
                        ELSE "linux")>>

\* C26: the Initialize script is, in this order, a GPT label line, a 1 GiB EFI entry,
\* a 4096 MiB swap entry if and only if swap was requested, and a last entry without
\* a size, typed LVM physical volume with LVM and Linux filesystem without; it is
\* applied with sfdisk --wipe always on the disk.
C26_InitializeScript ==
    (Started /\ table0 = {} /\ cp_pc # "whole") =>
        /\ Len(issued) >= 1 /\ unawaited = <<>>
        /\ issued[1].cmd = "sfdisk --wipe always" /\ issued[1].dev = opts.disk
        /\ issued[1].script
              = <<[label |-> "gpt", size |-> [n |-> 0, unit |-> ""], type |-> ""]>>
                \o ExpectedEntries
        /\ SfdiskType(issued[1].script[Len(issued[1].script)].type)
              = IF opts.use_lvm THEN "lvm" ELSE "linux"
        /\ \A i \in 2..Len(issued) : issued[i].cmd # "sfdisk --wipe always"

C26_Witness ==
    /\ Started /\ table0 = {} /\ cp_pc = "resolve"
    /\ ~SwapRequested /\ ~opts.use_lvm
    /\ Len(issued[1].script) = 3 /\ issued[1].script[3].type = "linux"

\* The append commands handed to run_command, awaited or not, in the order of the calls
AppendCalls ==
    SelectSeq(unawaited, LAMBDA c : c.cmd = "sfdisk --append") \o IssuedCmds("sfdisk --append")

\* C27: whatever the swap and LVM options, the Append script holds the partition
\* entries of the Initialize script, same sizes and types in the same order; the
\* Append command has no label line and no wipe option, and a retried append has the
\* script of the first.
C27_AppendScriptSameEntries ==
    /\ AppendSelected => (cp_pc # "add" => AppendCalls # <<>>)
    /\ \A k \in 1..Len(AppendCalls) :
          LET c == AppendCalls[k]
          IN  /\ Entries(c.script) = Entries(InitializeCommand.script)
              /\ Entries(c.script) = ExpectedEntries
              /\ c.script = Entries(c.script)
              /\ c.dev = opts.disk
              /\ c.script = AppendCalls[1].script
    /\ \A i \in 1..Len(issued) :
          issued[i].cmd = "sfdisk --wipe always" => AppendCalls = <<>>

C27_Witness ==
    /\ Started /\ table0 # {} /\ cp_pc = "resolve"
    /\ SwapRequested /\ opts.use_lvm
    /\ Len(AppendCalls) = 1 /\ Len(AppendCalls[1].script) = 3

\* C31: whenever create_partitions issues filesystem-creation commands, the resolved
\* EFI partition, swap partition (with swap) and root base partition are pairwise
\* distinct, so that no device is formatted by two provisioning steps of one run.
C31_ResolvedPartitionsDistinct ==
    (Started /\ \E i \in 1..Len(issued) : issued[i].cmd \in ProvisionCmds) =>
        /\ resolved.efi_part # resolved.root_base
        /\ include_swap => /\ resolved.swap_part # resolved.efi_part
                            /\ resolved.swap_part # resolved.root_base
        /\ \A i \in 1..Len(issued) : \A j \in 1..Len(issued) :
              (i # j /\ issued[i].cmd \in FormatCmds /\ issued[j].cmd \in FormatCmds)
                  => issued[i].dev # issued[j].dev

\* ---- the workflow steps ----
ReportedSuccess ==
    flow.step # "none" /\ \E k \in 1..Len(flow.console) : flow.console[k] = StepSuccess(flow.step)[1]

\* C11: a workflow step issues the commands of its list in list order, each only after
\* every earlier one returned success; after the first failing command it issues no
\* other and does not report success.
C11_SequenceStopsAtFirstFailure ==
    LET n == Len(flow.issued)
    IN  /\ n <= Len(flow.commands)
        /\ \A k \in 1..n : flow.issued[k] = flow.commands[k]
        /\ \A k \in 1..(n - 1) : flow.results[k]
        /\ (n > 0 /\ ~flow.results[n]) => (flow.pc = "returned" /\ ~ReportedSuccess)
        /\ ReportedSuccess => (n = Len(flow.commands) /\ \A k \in 1..n : flow.results[k])
        /\ (flow.step = "install_grub" /\ n = 3) =>
              /\ flow.issued[2].text = "grub-install --target=x86_64-efi --efi-directory=/boot/efi --bootloader-id=GRUB --removable"
              /\ flow.issued[3].text = "grub-mkconfig -o /boot/grub/grub.cfg"
        /\ (flow.step = "mount_partitions" /\ n >= 3) =>
              /\ flow.issued[1].text \in {"mount /dev/sda3 /mnt"}
              /\ flow.issued[2].text = "mkdir -p /mnt/boot/efi"
              /\ flow.issued[3].text \in {"mount /dev/sda1 /mnt/boot/efi"}

C11_Witness ==
    /\ flow.step = "create_user_and_services" /\ flow.pc = "returned"
    /\ Len(flow.issued) = 3 /\ ~flow.results[3]
    /\ Len(flow.commands) = 8

\* C35: LVM is selected only together with ext4: from the initial selection and
\* after any filesystem radio-button changes, use_lvm with filesystem_type btrfs
\* is never reached, and create_partitions never makes a btrfs filesystem on the
\* logical volume.
C35_LvmOnlyWithExt4 ==
    /\ opts.use_lvm => opts.filesystem_type = "ext4"
    /\ \A i \in 1..Len(issued) :
          (issued[i].cmd \in {"mkfs", "mkfs -f"} /\ issued[i].dev = Txt_vg0_root)
              => issued[i].fs = "ext4"

\* btrfs was chosen and create_partitions made the root filesystem
C35_Witness ==
    /\ Succeeded /\ opts.filesystem_type = "btrfs"
    /\ \E i \in 1..Len(issued) : issued[i].cmd = "mkfs -f"

\* create_partitions is over and did not report success
C34_Failed == cp_pc \in {"returned", "raised"} /\ ~Succeeded

\* The mount tab's inputs were set or the mount tab was made active
C34_HandedOver == inputs # NoInputs \/ active_tab = "mount_tab"

\* C34: on every failing path of create_partitions the mount tab's inputs and the
\* active tab are as they were when it was called (nothing set, the tab the disk button left
\* active); they are set to the resolved
\* paths and to the mount tab only after the partitioning command and every
\* provisioning command succeeded.
C34_HandOverOnlyAfterSuccess ==
    /\ C34_Failed =>
          /\ inputs = NoInputs
          /\ active_tab \in {"start_tab", "partition_tab"}
    /\ C34_HandedOver =>
          /\ inputs = [root_input |-> resolved.root_final,
                       efi_input |-> resolved.efi_part,
                       swap_input |-> resolved.swap_part]
          /\ active_tab = "mount_tab"
          /\ \A i \in 1..Len(results) : results[i]
          /\ \E i \in 1..Len(issued) : issued[i].cmd \in TableCmds /\ results[i]
          /\ \E i \in 1..Len(issued) : issued[i].cmd \in ProvisionCmds

\* The line run_command writes before it starts the command (line 269): the arrow
\* and the command text, which for a command of run_in_chroot is the text
\* run_in_chroot builds around the inner text
run_command_echo(e) == [arrow |-> "➜ ", chroot |-> e.chroot, text |-> e.text]

\* The arguments of another run that differs from the run with a only in the passwords
OtherPasswords(a) ==
    { [a EXCEPT !.root_password = p, !.user_password = q] :
          p \in Passwords \ {""}, q \in Passwords \ {""} }

\* C36: what is written to the console does not depend on a password the user
\* entered: a run of set_root_password or create_user_and_services and a run that
\* differs from it only in the password write the same line for every command
\* issued.
C36_ConsoleIndependentOfPassword ==
    \A a \in StepArgs :
        (/\ flow.step \in {"set_root_password", "create_user_and_services"}
         /\ StepRefusal(flow.step, a) = ""
         /\ flow.commands = StepCommands(flow.step, a))
        => \A b \in OtherPasswords(a) : \A k \in 1..Len(flow.issued) :
              run_command_echo(StepCommands(flow.step, b)[k])
                  = run_command_echo(flow.issued[k])

\* What the shell makes of the first word of s: a single quote opens a stretch taken
\* literally up to the next single quote, a double quote one up to the next double
\* quote (shlex.quote puts nothing but a single quote there), an unquoted blank or
\* newline ends the word
RECURSIVE ShellWord(_, _)
ShellWord(s, mode) ==
    IF s = <<>> THEN <<>>
    ELSE LET c == Head(s)
             r == Tail(s)
         IN  CASE mode = "plain"  /\ c = "'"           -> ShellWord(r, "single")
               [] mode = "plain"  /\ c = "\""          -> ShellWord(r, "double")
               [] mode = "plain"  /\ c \in {" ", "\n"} -> <<>>
               [] mode = "single" /\ c = "'"           -> ShellWord(r, "plain")
               [] mode = "double" /\ c = "\""          -> ShellWord(r, "plain")
               [] OTHER                                -> <<c>> \o ShellWord(r, mode)

\* The argument bash -lc is given once the shell has read chroot_cmd
BashArgument(cmd) ==
    ShellWord(SubSeq(cmd, Len(Txt_arch_chroot) + 1, Len(cmd)), "plain")

\* C37: the command run_in_chroot hands to the shell, once the shell has removed
\* the quoting of the bash -lc argument, is the stdbuf prefix followed by the inner
\* command text character for character, single quotes, double quotes, newlines
\* and heredoc markers included.
C37_QuotingPreservesInnerCommand ==
    chroot_call # NoCall =>
        /\ StartsWith(chroot_call.chroot_cmd, Txt_arch_chroot)
        /\ BashArgument(chroot_call.chroot_cmd)
              = Txt_stdbuf_oL_eL \o chroot_call.inner_cmd

\* An inner command with a single quote and a double quote, or a single quote and a
\* newline, was handed to run_in_chroot
C37_Witness ==
    /\ chroot_call # NoCall
    /\ \E i \in 1..Len(chroot_call.inner_cmd) : chroot_call.inner_cmd[i] = "'"
    /\ \E i \in 1..Len(chroot_call.inner_cmd) : chroot_call.inner_cmd[i] \in {"\"", "\n"}

\* C38: the partition index passed to sfdisk --delete is the maximal run of decimal
\* digits at the end of the trailing partition's kernel name (nvme0n1p7 gives 7,
\* sda12 gives 12); digits elsewhere in the name are not included.
C38_IndexIsTrailingDigitRun ==
    insp.pnum # <<>> =>
        LET name == insp.parts[Len(insp.parts)].name
            pnum == insp.pnum[1]
            rest == Len(name) - Len(pnum)
        IN  /\ Len(pnum) >= 1 /\ rest >= 0
            /\ \A i \in 1..Len(pnum) : IsDigit(pnum[i])
            /\ SubSeq(name, rest + 1, Len(name)) = pnum
            /\ rest > 0 => ~IsDigit(name[rest])

\* The index of nvme0n1p7 was extracted
C38_Witness ==
    /\ insp.pnum = << <<"7">> >>
    /\ insp.parts[Len(insp.parts)].name = <<"n","v","m","e","0","n","1","p","7">>

\* mount_partitions was called with the swap field empty: its list ends with a swapon
\* that names no device
SwapFieldEmpty ==
    /\ flow.step = "mount_partitions" /\ flow.commands # <<>>
    /\ flow.commands[Len(flow.commands)].text = "swapon "

\* C32: mount_partitions issues swapon only when the swap field is not empty: with
\* root and EFI given and swap empty it issues the root mount, the mkdir of
\* /mnt/boot/efi and the EFI mount, in this order, and nothing else, and reports
\* success if the three succeed.
C32_SwaponOnlyWithSwap ==
    SwapFieldEmpty =>
        /\ Len(flow.issued) <= 3
        /\ \A k \in 1..Len(flow.issued) : flow.issued[k].text # "swapon "
        /\ (flow.pc = "returned" /\ Len(flow.results) = 3
               /\ \A k \in 1..3 : flow.results[k]) => ReportedSuccess

\* C24: a workflow step that issues commands (set_timezone, add_t2_repository,
\* add_t2_repo_to_chroot, build_initramfs and unmount_system among them) writes its
\* success message only if every command it issued returned success; a failing command
\* makes it stop and report failure.
C24_SuccessOnlyIfAllSucceeded ==
    LET n == Len(flow.issued)
    IN  /\ ReportedSuccess => \A k \in 1..n : flow.results[k]
        /\ \A k \in 1..n :
              ~flow.results[k] =>
                  /\ k = n /\ flow.pc = "returned"
                  /\ flow.console[Len(flow.console)] = flow.issued[k].error
                  /\ flow.issued[k].error # ""

\* ---- run_in_chroot ----
\* How often sub occurs in s
Occurrences(s, sub) ==
    Cardinality({ i \in 0..(Len(s) - Len(sub)) : SubSeq(s, i + 1, i + Len(sub)) = sub })

\* C18: the command run inside the chroot holds at most one stdbuf wrapper around the
\* inner command: none is added to an inner command that begins with one.
C18_NoSecondWrapper ==
    Occurrences(chroot_call.wrapped_inner, Txt_stdbuf) <= 1
====
